---- MODULE Spec2Model ----
(***************************************************************************)
(* A model of loggy: the CombinedHandler (combined_handler.go), a slog     *)
(* handler that fans a record out to an ordered list of child handlers,    *)
(* and the console handler (NewConsoleLogHandler), a slog text or JSON     *)
(* handler on a ConsoleLogWriter that colours each rendered line by the    *)
(* level marker checkLevel finds in it.                                    *)
(*                                                                         *)
(* The children are slog text/JSON handlers as the tests build them: each  *)
(* has a minimum level, a format, a stream it writes to, the attributes    *)
(* bound to it and the groups opened on it.  A child's write fails when    *)
(* its stream has been closed (TestNewCombinedHandler_HandleError).        *)
(*                                                                         *)
(* Every method of CombinedHandler is a loop over h.handlers.  A call is    *)
(* one step; it leaves a frame holding the receiver (a copy of the slice   *)
(* header, the receiver being passed by value), the arguments, the calls   *)
(* made on the children in order, and the value returned.  The loop body   *)
(* of each method is an operator of its own, applied to the children in    *)
(* turn until the method returns; with two goroutines the calls advance    *)
(* one iteration at a time.                                                *)
(*                                                                         *)
(* Besides the handler built from text/JSON handlers the model has the     *)
(* handler built from a slice the caller goes on writing to, the handler   *)
(* with a CombinedHandler among its children, chains of derivations, and   *)
(* calls repeated on one handler or writer.                                *)
(*                                                                         *)
(* For the console handler a string is a sequence of pieces (level, =,     *)
(* ERROR, a quote, ...), a stream holds the writes it has received, and a  *)
(* line is rendered as slog renders it in the tests.                       *)
(***************************************************************************)
EXTENDS Integers, Sequences, FiniteSets, TLC

VARIABLES
    arrays,     \* heap of backing arrays of []slog.Handler slices
    held,       \* the handlers (or the writer) the application holds
    closed,     \* the streams that have been closed
    out,        \* the lines (writes) each stream has received, in order
    th,         \* per goroutine: the frame of its last call
    ncalls      \* number of Handle, Write and log calls made in sequence

vars == <<arrays, held, closed, out, th, ncalls>>

----------------------------------------------------------------------------
(* Bounds *)

MaxChildren == 3        \* children passed to NewCombinedHandler
MaxHandlers == 2        \* CombinedHandler values held (constructed + derived)
MaxCalls    == 1        \* Handle, Write and log calls made in sequence

----------------------------------------------------------------------------
(* slog levels *)

LevelDebug == -4
LevelInfo  == 0
LevelWarn  == 4
LevelError == 8

Levels == {LevelDebug, LevelInfo, LevelWarn, LevelError}

Streams == {1, 2}

(* The goroutines that use the handlers. *)
Threads == {"g1", "g2"}

(* An attribute: its key qualified by the groups open when it was added. *)
Attr(k, v) == [key |-> <<k>>, value |-> v]

NoError == [op |-> "none", stream |-> 0]

(* The error a write to a closed stream returns. *)
WriteError(s) == [op |-> "write", stream |-> s]

----------------------------------------------------------------------------
(* The child handlers (slog.NewTextHandler / slog.NewJSONHandler) *)

NewChild(lvl, js, s, name) ==
    [level  |-> lvl, json |-> js, stream |-> s,
     attrs  |-> <<Attr("logger", name)>>, groups |-> <<>>]

debugTextLogHandler == NewChild(LevelDebug, FALSE, 1, "debugTextLogHandler")
infoJSONLogHandler  == NewChild(LevelInfo,  TRUE,  1, "infoJSONLogHandler")
warnTextLogHandler  == NewChild(LevelWarn,  FALSE, 2, "warnTextLogHandler")
errorJSONLogHandler == NewChild(LevelError, TRUE,  2, "errorJSONLogHandler")

ChildPool ==
    {debugTextLogHandler, infoJSONLogHandler, warnTextLogHandler, errorJSONLogHandler}

(* handler.Enabled(ctx, level) of a child: the level reaches its minimum. *)
ChildEnabled(c, level) == level >= c.level

(* Keys of attributes are qualified by the groups open on the handler. *)
Qualify(groups, attrs) ==
    [i \in 1..Len(attrs) |-> [key |-> groups \o attrs[i].key, value |-> attrs[i].value]]

(* handler.WithAttrs(attrs) of a child. *)
ChildWithAttrs(c, attrs) == [c EXCEPT !.attrs = c.attrs \o Qualify(c.groups, attrs)]

(* handler.WithGroup(name) of a child. *)
ChildWithGroup(c, name) ==
    IF name = "" THEN c ELSE [c EXCEPT !.groups = Append(c.groups, name)]

(* The line a child renders for a record. *)
Line(c, record) ==
    [json  |-> c.json, level |-> record.level, msg |-> record.msg,
     attrs |-> c.attrs \o Qualify(c.groups, record.attrs)]

(* handler.Handle(ctx, record) of a child: one write of the rendered line. *)
ChildHandleErr(c, cl) == IF c.stream \in cl THEN WriteError(c.stream) ELSE NoError

ChildHandleOut(c, record, cl, o) ==
    IF c.stream \in cl THEN o
    ELSE [o EXCEPT ![c.stream] = Append(o[c.stream], Line(c, record))]

----------------------------------------------------------------------------
(* Inputs *)

TestAttrs == <<Attr("test_key", "test_value")>>

Record(level, attrs) == [level |-> level, msg |-> "this is a test log", attrs |-> attrs]

(* The records the tests log: one at each level, and an error with an attribute. *)
Records == {Record(l, <<>>) : l \in Levels} \cup {Record(LevelError, TestAttrs)}

AttrArgs == {<<>>, TestAttrs}

GroupArgs == {"", "test"}

RECURSIVE SeqsUpTo(_, _)
SeqsUpTo(S, n) ==
    IF n = 0 THEN {<<>>}
    ELSE LET shorter == SeqsUpTo(S, n - 1)
         IN  shorter \cup {Append(s, x) : s \in {q \in shorter : Len(q) = n - 1}, x \in S}

(* The argument lists of NewCombinedHandler: distinct handlers, in any order. *)
ChildLists ==
    {hs \in SeqsUpTo(ChildPool, MaxChildren) :
        \A i, j \in 1..Len(hs) : i # j => hs[i] # hs[j]}

----------------------------------------------------------------------------
(* Slices and CombinedHandler values *)

NilSlice == [arr |-> 0, len |-> 0]

(* The elements a slice header denotes in a heap. *)
Elems(heap, sl) == IF sl.arr = 0 THEN <<>> ELSE SubSeq(heap[sl.arr], 1, sl.len)

(* type CombinedHandler struct { handlers []slog.Handler } *)
CombinedHandler(sl) == [handlers |-> sl]

Children(h) == Elems(arrays, h.handlers)

(* NewCombinedHandler keeps the slice it is given. *)
NewCombinedHandler(sl) == CombinedHandler(sl)

(* What the application remembers of a handler it holds: the value, the
   children it had when it was obtained, the call that returned it (receiver,
   method, argument) and the calls that call made on the children. *)
Held(h, kids, from, op, attrs, name, calls) ==
    [h |-> h, kids |-> kids, from |-> from, op |-> op, attrs |-> attrs, name |-> name,
     calls |-> calls]

----------------------------------------------------------------------------
(* Frames *)

NoRecord == [level |-> 0, msg |-> "", attrs |-> <<>>]

Idle ==
    [pc |-> "idle", op |-> "none", h |-> CombinedHandler(NilSlice),
     level |-> 0, record |-> NoRecord, attrs |-> <<>>, name |-> "",
     i |-> 0, newHandler |-> <<>>, log |-> <<>>,
     enabled |-> FALSE, err |-> NoError, result |-> CombinedHandler(NilSlice),
     prev |-> <<>>]

Free(t) == th[t].pc \in {"idle", "done"}

(* A call starts: the receiver is copied into the frame. *)
Call(op, j) ==
    [Idle EXCEPT !.pc = "loop", !.op = op, !.h = held[j].h, !.i = 1]

(* Variant: the loop runs over the children from the last to the first. *)
CurReversed(f, heap) == heap[f.h.handlers.arr][f.h.handlers.len + 1 - f.i]

(* Variant: the loop index is shared by the calls running on a handler, each
   call going on from where the furthest of them is. *)
CurShared(f, heap) ==
    LET is == {f.i} \cup {th[u].i : u \in {v \in Threads : /\ th[v].pc = "loop"
                                                          /\ th[v].h = f.h
                                                          /\ th[v].i <= f.h.handlers.len}}
    IN  heap[f.h.handlers.arr][CHOOSE i \in is : \A k \in is : k <= i]

(* The child the loop of a frame is at. *)
Cur(f, heap) == heap[f.h.handlers.arr][f.i]

(* The range loop of a frame is over. *)
AfterLoop(f) == f.i > f.h.handlers.len

(* The calls a frame has made on the children. *)
EnabledCall(i, level, b) ==
    [child |-> i, method |-> "Enabled", level |-> level, enabled |-> b]

HandleCall(i, record, err, pos) ==
    [child |-> i, method |-> "Handle", record |-> record, err |-> err, pos |-> pos,
     calls |-> <<>>]

WithAttrsCall(i, attrs) == [child |-> i, method |-> "WithAttrs", attrs |-> attrs]

WithGroupCall(i, name) == [child |-> i, method |-> "WithGroup", name |-> name]

----------------------------------------------------------------------------
(* CombinedHandler.Handle *)

(* Variant: the handler latches a failure, a call after a failed call returns
   the earlier error without going to the children. *)
HandleLatching(f, c, cl, o) ==
    LET level == f.record.level
        asked == Append(f.log, EnabledCall(f.i, level, ChildEnabled(c, level)))
        err   == ChildHandleErr(c, cl)
        pos   == IF err = NoError THEN Len(o[c.stream]) + 1 ELSE 0
        tried == Append(asked, HandleCall(f.i, f.record, err, pos))
    IN  IF f.prev # <<>> /\ f.prev[1].err # NoError
        THEN [frame |-> [f EXCEPT !.pc = "done", !.err = f.prev[1].err], out |-> o]
        ELSE IF ~ChildEnabled(c, level)
        THEN [frame |-> [f EXCEPT !.i = f.i + 1, !.log = asked], out |-> o]
        ELSE IF err # NoError
        THEN [frame |-> [f EXCEPT !.pc = "done", !.err = err, !.log = tried],
              out   |-> ChildHandleOut(c, f.record, cl, o)]
        ELSE [frame |-> [f EXCEPT !.i = f.i + 1, !.log = tried],
              out   |-> ChildHandleOut(c, f.record, cl, o)]

(* Variant: best-effort delivery, the loop goes on after a failing child. *)
HandleBestEffort(f, c, cl, o) ==
    LET level == f.record.level
        asked == Append(f.log, EnabledCall(f.i, level, ChildEnabled(c, level)))
        err   == ChildHandleErr(c, cl)
        pos   == IF err = NoError THEN Len(o[c.stream]) + 1 ELSE 0
        tried == Append(asked, HandleCall(f.i, f.record, err, pos))
    IN  IF ~ChildEnabled(c, level)
        THEN [frame |-> [f EXCEPT !.i = f.i + 1, !.log = asked], out |-> o]
        ELSE [frame |-> [f EXCEPT !.i = f.i + 1, !.log = tried],
              out   |-> ChildHandleOut(c, f.record, cl, o)]

(* Variant: all or nothing, a failing child undoes the deliveries of the call. *)
HandleRollback(f, c, cl, o) ==
    LET level == f.record.level
        asked == Append(f.log, EnabledCall(f.i, level, ChildEnabled(c, level)))
        err   == ChildHandleErr(c, cl)
        pos   == IF err = NoError THEN Len(o[c.stream]) + 1 ELSE 0
        tried == Append(asked, HandleCall(f.i, f.record, err, pos))
        mine(s) == {f.log[n].pos : n \in {m \in 1..Len(f.log) :
                        /\ f.log[m].method = "Handle"
                        /\ arrays[f.h.handlers.arr][f.log[m].child].stream = s}}
        undone == [s \in DOMAIN o |->
                      SelectSeq([p \in 1..Len(o[s]) |-> [at |-> p, line |-> o[s][p]]],
                                LAMBDA e : e.at \notin mine(s))]
    IN  IF ~ChildEnabled(c, level)
        THEN [frame |-> [f EXCEPT !.i = f.i + 1, !.log = asked], out |-> o]
        ELSE IF err # NoError
        THEN [frame |-> [f EXCEPT !.pc = "done", !.err = err, !.log = tried],
              out   |-> [s \in DOMAIN o |-> [p \in 1..Len(undone[s]) |-> undone[s][p].line]]]
        ELSE [frame |-> [f EXCEPT !.i = f.i + 1, !.log = tried],
              out   |-> ChildHandleOut(c, f.record, cl, o)]

(* Variant: the child is not asked whether it is enabled. *)
HandleUngated(f, c, cl, o) ==
    LET err   == ChildHandleErr(c, cl)
        pos   == IF err = NoError THEN Len(o[c.stream]) + 1 ELSE 0
        tried == Append(f.log, HandleCall(f.i, f.record, err, pos))
    IN  IF err # NoError
        THEN [frame |-> [f EXCEPT !.pc = "done", !.err = err, !.log = tried],
              out   |-> ChildHandleOut(c, f.record, cl, o)]
        ELSE [frame |-> [f EXCEPT !.i = f.i + 1, !.log = tried],
              out   |-> ChildHandleOut(c, f.record, cl, o)]

(* Variant: the child's Handle is called first and the child is asked whether
   it is enabled afterwards. *)
HandleAskAfter(f, c, cl, o) ==
    LET level == f.record.level
        err   == ChildHandleErr(c, cl)
        pos   == IF err = NoError THEN Len(o[c.stream]) + 1 ELSE 0
        tried == Append(f.log, HandleCall(f.i, f.record, err, pos))
        asked == Append(tried, EnabledCall(f.i, level, ChildEnabled(c, level)))
    IN  IF err # NoError
        THEN [frame |-> [f EXCEPT !.pc = "done", !.err = err, !.log = tried],
              out   |-> ChildHandleOut(c, f.record, cl, o)]
        ELSE [frame |-> [f EXCEPT !.i = f.i + 1, !.log = asked],
              out   |-> ChildHandleOut(c, f.record, cl, o)]

(* Variant: the error of a child is wrapped into an error of the combined
   handler. *)
HandleWrapped(f, c, cl, o) ==
    LET level == f.record.level
        asked == Append(f.log, EnabledCall(f.i, level, ChildEnabled(c, level)))
        err   == ChildHandleErr(c, cl)
        pos   == IF err = NoError THEN Len(o[c.stream]) + 1 ELSE 0
        tried == Append(asked, HandleCall(f.i, f.record, err, pos))
    IN  IF ~ChildEnabled(c, level)
        THEN [frame |-> [f EXCEPT !.i = f.i + 1, !.log = asked], out |-> o]
        ELSE IF err # NoError
        THEN [frame |-> [f EXCEPT !.pc = "done", !.log = tried,
                                  !.err = [op |-> "combined", stream |-> err.stream]],
              out   |-> ChildHandleOut(c, f.record, cl, o)]
        ELSE [frame |-> [f EXCEPT !.i = f.i + 1, !.log = tried],
              out   |-> ChildHandleOut(c, f.record, cl, o)]

(* One iteration of the loop of Handle on child c: the frame and the streams
   after it. *)
Handle(f, c, cl, o) ==
    LET level == f.record.level
        asked == Append(f.log, EnabledCall(f.i, level, ChildEnabled(c, level)))
        err   == ChildHandleErr(c, cl)
        pos   == IF err = NoError THEN Len(o[c.stream]) + 1 ELSE 0
        tried == Append(asked, HandleCall(f.i, f.record, err, pos))
    IN  IF ~ChildEnabled(c, level)
        THEN [frame |-> [f EXCEPT !.i = f.i + 1, !.log = asked], out |-> o]
        ELSE IF err # NoError
        THEN [frame |-> [f EXCEPT !.pc = "done", !.err = err, !.log = tried],
              out   |-> ChildHandleOut(c, f.record, cl, o)]
        ELSE [frame |-> [f EXCEPT !.i = f.i + 1, !.log = tried],
              out   |-> ChildHandleOut(c, f.record, cl, o)]

(* One step of Handle: an iteration of the loop, or the return after it. *)
HandleStep(f, heap, cl, o) ==
    IF AfterLoop(f) THEN [frame |-> [f EXCEPT !.pc = "done", !.err = NoError], out |-> o]
    ELSE Handle(f, Cur(f, heap), cl, o)

(* The loop of Handle from the position of the frame up to the return. *)
RECURSIVE HandleRun(_, _, _, _)
HandleRun(f, heap, cl, o) ==
    IF f.pc = "done" THEN [frame |-> f, out |-> o]
    ELSE LET r == HandleStep(f, heap, cl, o)
         IN  HandleRun(r.frame, heap, cl, r.out)

CallHandle(t) ==
    /\ Free(t)
    /\ ncalls < MaxCalls
    /\ \E j \in 1..Len(held), record \in Records :
          LET r == HandleRun([Call("Handle", j) EXCEPT !.record = record], arrays, closed, out)
          IN  /\ th' = [th EXCEPT ![t] = r.frame]
              /\ out' = r.out
    /\ ncalls' = ncalls + 1
    /\ UNCHANGED <<arrays, held, closed>>

(* A further Handle call on the handler of the goroutine's last Handle call,
   one more than the MaxCalls calls made otherwise; the frame of that earlier
   call is kept in the new frame. *)
CallHandleAgain(t) ==
    /\ th[t].pc = "done"
    /\ th[t].op = "Handle"
    /\ ncalls < MaxCalls + 1
    /\ \E j \in 1..Len(held), record \in Records :
          /\ held[j].h = th[t].h
          /\ LET f == [Call("Handle", j) EXCEPT !.record = record,
                                                !.prev = <<[th[t] EXCEPT !.prev = <<>>]>>]
                 r == HandleRun(f, arrays, closed, out)
             IN  /\ th' = [th EXCEPT ![t] = r.frame]
                 /\ out' = r.out
    /\ ncalls' = ncalls + 1
    /\ UNCHANGED <<arrays, held, closed>>

----------------------------------------------------------------------------
(* CombinedHandler.Enabled *)

(* Variant: the answer of the first child is returned. *)
EnabledFirstOnly(f, c) ==
    LET asked == Append(f.log, EnabledCall(f.i, f.level, ChildEnabled(c, f.level)))
    IN  [f EXCEPT !.pc = "done", !.enabled = ChildEnabled(c, f.level), !.log = asked]

(* Variant: no short circuit, an enabled child is found only after the
   children behind it have been asked too. *)
EnabledEager(f, c) ==
    LET kids  == arrays[f.h.handlers.arr]
        rest  == [k \in 1..(f.h.handlers.len - f.i + 1) |->
                     EnabledCall(f.i + k - 1, f.level,
                                 ChildEnabled(kids[f.i + k - 1], f.level))]
        asked == Append(f.log, EnabledCall(f.i, f.level, ChildEnabled(c, f.level)))
    IN  IF ChildEnabled(c, f.level)
        THEN [f EXCEPT !.pc = "done", !.enabled = TRUE, !.log = f.log \o rest]
        ELSE [f EXCEPT !.i = f.i + 1, !.log = asked]

(* Variant: a child counts as enabled only above its minimum level. *)
EnabledAbove(f, c) ==
    LET asked == Append(f.log, EnabledCall(f.i, f.level, f.level > c.level))
    IN  IF f.level > c.level
        THEN [f EXCEPT !.pc = "done", !.enabled = TRUE, !.log = asked]
        ELSE [f EXCEPT !.i = f.i + 1, !.log = asked]

(* One iteration of the loop of Enabled on child c. *)
Enabled(f, c) ==
    LET asked == Append(f.log, EnabledCall(f.i, f.level, ChildEnabled(c, f.level)))
    IN  IF ChildEnabled(c, f.level)
        THEN [f EXCEPT !.pc = "done", !.enabled = TRUE, !.log = asked]
        ELSE [f EXCEPT !.i = f.i + 1, !.log = asked]

(* One step of Enabled: an iteration of the loop, or the return after it. *)
EnabledStep(f, heap) ==
    IF AfterLoop(f) THEN [f EXCEPT !.pc = "done", !.enabled = FALSE]
    ELSE Enabled(f, Cur(f, heap))

(* The loop of Enabled from the position of the frame up to the return. *)
RECURSIVE EnabledRun(_, _)
EnabledRun(f, heap) ==
    IF f.pc = "done" THEN f ELSE EnabledRun(EnabledStep(f, heap), heap)

CallEnabled(t) ==
    /\ Free(t)
    /\ \E j \in 1..Len(held), level \in Levels :
          th' = [th EXCEPT ![t] = EnabledRun([Call("Enabled", j) EXCEPT !.level = level], arrays)]
    /\ UNCHANGED <<arrays, held, closed, out, ncalls>>

----------------------------------------------------------------------------
(* A CombinedHandler among the children.  NewCombinedHandler returns a
   slog.Handler, so an element of h.handlers can be a CombinedHandler; the
   calls handler.Enabled(ctx, level) and handler.Handle(ctx, record) on such
   an element run the loops of Enabled and Handle on its own children.  The
   loops are those above, with the calls on the element dispatched on what
   the element is.  Handlers so nested are asked and logged through, not
   derived from. *)

RECURSIVE EnabledNestedRun(_, _)
RECURSIVE HandleNestedRun(_, _, _, _)

IsCombined(c) == "handlers" \in DOMAIN c

(* handler.Enabled(ctx, level) on an element of h.handlers. *)
HandlerEnabled(c, level) ==
    IF IsCombined(c)
    THEN EnabledNestedRun([Idle EXCEPT !.pc = "loop", !.op = "Enabled", !.h = c, !.i = 1,
                                       !.level = level], arrays).enabled
    ELSE ChildEnabled(c, level)

(* handler.Handle(ctx, record) on an element of h.handlers: the error
   returned, the streams after the call, the position of the line written
   and, for a CombinedHandler, the calls it made on its children. *)
HandlerHandle(c, record, cl, o) ==
    IF IsCombined(c)
    THEN LET r == HandleNestedRun([Idle EXCEPT !.pc = "loop", !.op = "Handle", !.h = c,
                                               !.i = 1, !.record = record], arrays, cl, o)
         IN  [err |-> r.frame.err, out |-> r.out, pos |-> 0, calls |-> r.frame.log]
    ELSE [err   |-> ChildHandleErr(c, cl),
          out   |-> ChildHandleOut(c, record, cl, o),
          pos   |-> IF ChildHandleErr(c, cl) = NoError THEN Len(o[c.stream]) + 1 ELSE 0,
          calls |-> <<>>]

(* Variant: a handler is enabled only when all its children are, the loop
   returns false at the first child that is not. *)
EnabledNestedEvery(f, c) ==
    LET asked == Append(f.log, EnabledCall(f.i, f.level, HandlerEnabled(c, f.level)))
    IN  IF ~HandlerEnabled(c, f.level)
        THEN [f EXCEPT !.pc = "done", !.enabled = FALSE, !.log = asked]
        ELSE IF f.i = f.h.handlers.len
        THEN [f EXCEPT !.pc = "done", !.enabled = TRUE, !.log = asked]
        ELSE [f EXCEPT !.i = f.i + 1, !.log = asked]

(* One iteration of the loop of Enabled on element c. *)
EnabledNested(f, c) ==
    LET asked == Append(f.log, EnabledCall(f.i, f.level, HandlerEnabled(c, f.level)))
    IN  IF HandlerEnabled(c, f.level)
        THEN [f EXCEPT !.pc = "done", !.enabled = TRUE, !.log = asked]
        ELSE [f EXCEPT !.i = f.i + 1, !.log = asked]

EnabledNestedStep(f, heap) ==
    IF AfterLoop(f) THEN [f EXCEPT !.pc = "done", !.enabled = FALSE]
    ELSE EnabledNested(f, Cur(f, heap))

EnabledNestedRun(f, heap) ==
    IF f.pc = "done" THEN f ELSE EnabledNestedRun(EnabledNestedStep(f, heap), heap)

(* One iteration of the loop of Handle on element c. *)
HandleNested(f, c, cl, o) ==
    LET level == f.record.level
        asked == Append(f.log, EnabledCall(f.i, level, HandlerEnabled(c, level)))
        r     == HandlerHandle(c, f.record, cl, o)
        tried == Append(asked, [HandleCall(f.i, f.record, r.err, r.pos)
                                   EXCEPT !.calls = r.calls])
    IN  IF ~HandlerEnabled(c, level)
        THEN [frame |-> [f EXCEPT !.i = f.i + 1, !.log = asked], out |-> o]
        ELSE IF r.err # NoError
        THEN [frame |-> [f EXCEPT !.pc = "done", !.err = r.err, !.log = tried],
              out   |-> r.out]
        ELSE [frame |-> [f EXCEPT !.i = f.i + 1, !.log = tried],
              out   |-> r.out]

HandleNestedStep(f, heap, cl, o) ==
    IF AfterLoop(f) THEN [frame |-> [f EXCEPT !.pc = "done", !.err = NoError], out |-> o]
    ELSE HandleNested(f, Cur(f, heap), cl, o)

HandleNestedRun(f, heap, cl, o) ==
    IF f.pc = "done" THEN [frame |-> f, out |-> o]
    ELSE LET r == HandleNestedStep(f, heap, cl, o)
         IN  HandleNestedRun(r.frame, heap, cl, r.out)

(* Enabled and Handle as functions of the handler, the argument and the
   closed streams: one application per run. *)
ApplyEnabled(t) ==
    /\ th[t].pc = "idle"
    /\ \E j \in 1..Len(held), level \in Levels :
          th' = [th EXCEPT ![t] = EnabledNestedRun([Call("Enabled", j) EXCEPT !.level = level],
                                                   arrays)]
    /\ UNCHANGED <<arrays, held, closed, out, ncalls>>

ApplyHandle(t) ==
    /\ th[t].pc = "idle"
    /\ \E j \in 1..Len(held), record \in Records :
          LET r == HandleNestedRun([Call("Handle", j) EXCEPT !.record = record],
                                   arrays, closed, out)
          IN  /\ th' = [th EXCEPT ![t] = r.frame]
              /\ out' = r.out
    /\ ncalls' = ncalls + 1
    /\ UNCHANGED <<arrays, held, closed>>

----------------------------------------------------------------------------
(* CombinedHandler.WithAttrs *)

(* The slice a finished newHandler.handlers is: nil when nothing was appended,
   else a fresh backing array. *)
Built(heap, new) ==
    IF new = <<>> THEN NilSlice ELSE [arr |-> Len(heap) + 1, len |-> Len(new)]

Alloc(heap, new) == IF new = <<>> THEN heap ELSE Append(heap, new)

(* Variant: no test on entry, the loop runs also without attributes. *)
WithAttrsAlwaysNew(f) == f

(* The test on entry: no attributes, return the receiver. *)
WithAttrsEntry(f) ==
    IF Len(f.attrs) = 0 THEN [f EXCEPT !.pc = "done", !.result = f.h] ELSE f

(* Variant: the child is appended as it is, the attributes are not bound. *)
WithAttrsUnbound(f, c, heap) ==
    [frame  |-> [f EXCEPT !.i = f.i + 1,
                          !.newHandler = Append(f.newHandler, c),
                          !.log = Append(f.log, WithAttrsCall(f.i, f.attrs))],
     arrays |-> heap]

(* Variant: the derived child is also stored into the receiver's slice. *)
WithAttrsInPlace(f, c, heap) ==
    [frame  |-> [f EXCEPT !.i = f.i + 1,
                          !.newHandler = Append(f.newHandler, ChildWithAttrs(c, f.attrs)),
                          !.log = Append(f.log, WithAttrsCall(f.i, f.attrs))],
     arrays |-> [heap EXCEPT ![f.h.handlers.arr][f.i] = ChildWithAttrs(c, f.attrs)]]

(* Variant: the attributes are bound to the child the handler was built
   with, what earlier derivations made of it is lost. *)
WithAttrsFromRoot(f, c, heap) ==
    [frame  |-> [f EXCEPT !.i = f.i + 1,
                          !.newHandler = Append(f.newHandler,
                                                ChildWithAttrs(heap[1][f.i], f.attrs)),
                          !.log = Append(f.log, WithAttrsCall(f.i, f.attrs))],
     arrays |-> heap]

(* One iteration of the loop of WithAttrs on child c: the frame and the heap
   after it. *)
WithAttrs(f, c, heap) ==
    [frame  |-> [f EXCEPT !.i = f.i + 1,
                          !.newHandler = Append(f.newHandler, ChildWithAttrs(c, f.attrs)),
                          !.log = Append(f.log, WithAttrsCall(f.i, f.attrs))],
     arrays |-> heap]

(* One step of WithAttrs: an iteration of the loop, or the return of
   newHandler after it. *)
WithAttrsStep(f, heap) ==
    IF AfterLoop(f)
    THEN [frame  |-> [f EXCEPT !.pc = "done",
                               !.result = CombinedHandler(Built(heap, f.newHandler))],
          arrays |-> Alloc(heap, f.newHandler)]
    ELSE WithAttrs(f, Cur(f, heap), heap)

(* The loop of WithAttrs from the position of the frame up to the return. *)
RECURSIVE WithAttrsRun(_, _)
WithAttrsRun(f, heap) ==
    IF f.pc = "done" THEN [frame |-> f, arrays |-> heap]
    ELSE LET r == WithAttrsStep(f, heap)
         IN  WithAttrsRun(r.frame, r.arrays)

(* The caller receives the handler a finished frame returns. *)
Receive(f, heap) ==
    Append(held, Held(f.result, Elems(heap, f.result.handlers), f.h, f.op, f.attrs, f.name,
                      f.log))

CallWithAttrs(t) ==
    /\ Free(t)
    /\ Len(held) < MaxHandlers
    /\ \E j \in 1..Len(held), attrs \in AttrArgs :
          LET r == WithAttrsRun(WithAttrsEntry([Call("WithAttrs", j) EXCEPT !.attrs = attrs]),
                                arrays)
          IN  /\ th' = [th EXCEPT ![t] = r.frame]
              /\ arrays' = r.arrays
              /\ held' = Receive(r.frame, r.arrays)
    /\ UNCHANGED <<closed, out, ncalls>>

----------------------------------------------------------------------------
(* CombinedHandler.WithGroup *)

(* Variant: no test on entry, the loop runs also for the empty name. *)
WithGroupAlwaysNew(f) == f

(* The test on entry: empty name, return the receiver. *)
WithGroupEntry(f) ==
    IF f.name = "" THEN [f EXCEPT !.pc = "done", !.result = f.h] ELSE f

(* Variant: the derived child is put in front of newHandler.handlers. *)
WithGroupPrepend(f, c, heap) ==
    [frame  |-> [f EXCEPT !.i = f.i + 1,
                          !.newHandler = <<ChildWithGroup(c, f.name)>> \o f.newHandler,
                          !.log = Append(f.log, WithGroupCall(f.i, f.name))],
     arrays |-> heap]

(* Variant: the derived child is also stored into the receiver's slice. *)
WithGroupInPlace(f, c, heap) ==
    [frame  |-> [f EXCEPT !.i = f.i + 1,
                          !.newHandler = Append(f.newHandler, ChildWithGroup(c, f.name)),
                          !.log = Append(f.log, WithGroupCall(f.i, f.name))],
     arrays |-> [heap EXCEPT ![f.h.handlers.arr][f.i] = ChildWithGroup(c, f.name)]]

(* One iteration of the loop of WithGroup on child c: the frame and the heap
   after it. *)
WithGroup(f, c, heap) ==
    [frame  |-> [f EXCEPT !.i = f.i + 1,
                          !.newHandler = Append(f.newHandler, ChildWithGroup(c, f.name)),
                          !.log = Append(f.log, WithGroupCall(f.i, f.name))],
     arrays |-> heap]

(* One step of WithGroup: an iteration of the loop, or the return of
   newHandler after it. *)
WithGroupStep(f, heap) ==
    IF AfterLoop(f)
    THEN [frame  |-> [f EXCEPT !.pc = "done",
                               !.result = CombinedHandler(Built(heap, f.newHandler))],
          arrays |-> Alloc(heap, f.newHandler)]
    ELSE WithGroup(f, Cur(f, heap), heap)

(* The loop of WithGroup from the position of the frame up to the return. *)
RECURSIVE WithGroupRun(_, _)
WithGroupRun(f, heap) ==
    IF f.pc = "done" THEN [frame |-> f, arrays |-> heap]
    ELSE LET r == WithGroupStep(f, heap)
         IN  WithGroupRun(r.frame, r.arrays)

CallWithGroup(t) ==
    /\ Free(t)
    /\ Len(held) < MaxHandlers
    /\ \E j \in 1..Len(held), name \in GroupArgs :
          LET r == WithGroupRun(WithGroupEntry([Call("WithGroup", j) EXCEPT !.name = name]),
                                arrays)
          IN  /\ th' = [th EXCEPT ![t] = r.frame]
              /\ arrays' = r.arrays
              /\ held' = Receive(r.frame, r.arrays)
    /\ UNCHANGED <<closed, out, ncalls>>

(* Derivations in a chain, h.WithGroup(..).WithAttrs(..)...: the method is
   called on the handler the application obtained last, up to MaxHandlers
   derivations. *)
ChainWithAttrs(t) ==
    /\ Free(t)
    /\ Len(held) < MaxHandlers + 1
    /\ \E attrs \in AttrArgs :
          LET r == WithAttrsRun(WithAttrsEntry([Call("WithAttrs", Len(held))
                                                   EXCEPT !.attrs = attrs]), arrays)
          IN  /\ th' = [th EXCEPT ![t] = r.frame]
              /\ arrays' = r.arrays
              /\ held' = Receive(r.frame, r.arrays)
    /\ UNCHANGED <<closed, out, ncalls>>

ChainWithGroup(t) ==
    /\ Free(t)
    /\ Len(held) < MaxHandlers + 1
    /\ \E name \in GroupArgs :
          LET r == WithGroupRun(WithGroupEntry([Call("WithGroup", Len(held))
                                                   EXCEPT !.name = name]), arrays)
          IN  /\ th' = [th EXCEPT ![t] = r.frame]
              /\ arrays' = r.arrays
              /\ held' = Receive(r.frame, r.arrays)
    /\ UNCHANGED <<closed, out, ncalls>>

----------------------------------------------------------------------------
(* Goroutines calling the methods of CombinedHandler at the same time: each
   goroutine makes one call, which begins, then advances by one iteration of
   its loop at a time, the steps of the goroutines in any order.  A write of
   a child on its stream is one step. *)

(* The With... calls that have begun and not yet returned. *)
Deriving == {t \in Threads : th[t].pc = "loop" /\ th[t].op \in {"WithAttrs", "WithGroup"}}

BeginHandle(t) ==
    /\ th[t].pc = "idle"
    /\ \E j \in 1..Len(held), record \in Records :
          th' = [th EXCEPT ![t] = [Call("Handle", j) EXCEPT !.record = record]]
    /\ UNCHANGED <<arrays, held, closed, out, ncalls>>

StepHandle(t) ==
    /\ th[t].pc = "loop"
    /\ th[t].op = "Handle"
    /\ LET r == HandleStep(th[t], arrays, closed, out)
       IN  /\ th' = [th EXCEPT ![t] = r.frame]
           /\ out' = r.out
    /\ UNCHANGED <<arrays, held, closed, ncalls>>

BeginEnabled(t) ==
    /\ th[t].pc = "idle"
    /\ \E j \in 1..Len(held), level \in Levels :
          th' = [th EXCEPT ![t] = [Call("Enabled", j) EXCEPT !.level = level]]
    /\ UNCHANGED <<arrays, held, closed, out, ncalls>>

StepEnabled(t) ==
    /\ th[t].pc = "loop"
    /\ th[t].op = "Enabled"
    /\ th' = [th EXCEPT ![t] = EnabledStep(th[t], arrays)]
    /\ UNCHANGED <<arrays, held, closed, out, ncalls>>

BeginWithAttrs(t) ==
    /\ th[t].pc = "idle"
    /\ Len(held) + Cardinality(Deriving) < MaxHandlers
    /\ \E j \in 1..Len(held), attrs \in AttrArgs :
          LET f == WithAttrsEntry([Call("WithAttrs", j) EXCEPT !.attrs = attrs])
          IN  /\ th' = [th EXCEPT ![t] = f]
              /\ held' = IF f.pc = "done" THEN Receive(f, arrays) ELSE held
    /\ UNCHANGED <<arrays, closed, out, ncalls>>

StepWithAttrs(t) ==
    /\ th[t].pc = "loop"
    /\ th[t].op = "WithAttrs"
    /\ LET r == WithAttrsStep(th[t], arrays)
       IN  /\ th' = [th EXCEPT ![t] = r.frame]
           /\ arrays' = r.arrays
           /\ held' = IF r.frame.pc = "done" THEN Receive(r.frame, r.arrays) ELSE held
    /\ UNCHANGED <<closed, out, ncalls>>

BeginWithGroup(t) ==
    /\ th[t].pc = "idle"
    /\ Len(held) + Cardinality(Deriving) < MaxHandlers
    /\ \E j \in 1..Len(held), name \in GroupArgs :
          LET f == WithGroupEntry([Call("WithGroup", j) EXCEPT !.name = name])
          IN  /\ th' = [th EXCEPT ![t] = f]
              /\ held' = IF f.pc = "done" THEN Receive(f, arrays) ELSE held
    /\ UNCHANGED <<arrays, closed, out, ncalls>>

StepWithGroup(t) ==
    /\ th[t].pc = "loop"
    /\ th[t].op = "WithGroup"
    /\ LET r == WithGroupStep(th[t], arrays)
       IN  /\ th' = [th EXCEPT ![t] = r.frame]
           /\ arrays' = r.arrays
           /\ held' = IF r.frame.pc = "done" THEN Receive(r.frame, r.arrays) ELSE held
    /\ UNCHANGED <<closed, out, ncalls>>

----------------------------------------------------------------------------
(* The environment: a stream is closed (writer.Close()). *)

CloseStream(s) ==
    /\ s \notin closed
    /\ closed' = closed \cup {s}
    /\ UNCHANGED <<arrays, held, out, th, ncalls>>

----------------------------------------------------------------------------
(* Rendered lines.  A string is the sequence of its pieces; the pieces are
   chosen so that one string contains another exactly when its sequence
   contains the other's. *)

Quote     == "\""
Backslash == "\\"
Newline   == "\n"

Digits == <<"0", "1", "2", "3", "4", "5", "6", "7", "8", "9">>

(* A natural number in decimal. *)
RECURSIVE Decimal(_)
Decimal(n) ==
    IF n < 10 THEN <<Digits[n + 1]>> ELSE Decimal(n \div 10) \o <<Digits[(n % 10) + 1]>>

(* fmt.Sprintf("%s%+d", base, val), and base alone when val is 0. *)
Str(base, val) ==
    IF val = 0 THEN <<base>>
    ELSE IF val > 0 THEN <<base, "+">> \o Decimal(val)
    ELSE <<base, "-">> \o Decimal(0 - val)

(* level.String() *)
LevelString(level) ==
    IF level < LevelInfo THEN Str("DEBUG", level - LevelDebug)
    ELSE IF level < LevelWarn THEN Str("INFO", level - LevelInfo)
    ELSE IF level < LevelError THEN Str("WARN", level - LevelWarn)
    ELSE Str("ERROR", level - LevelError)

HasPrefix(s, prefix) ==
    Len(prefix) <= Len(s) /\ SubSeq(s, 1, Len(prefix)) = prefix

(* strings.Contains(s, substr): the search from the left. *)
RECURSIVE Contains(_, _)
Contains(s, substr) ==
    IF Len(s) < Len(substr) THEN FALSE
    ELSE IF HasPrefix(s, substr) THEN TRUE
    ELSE Contains(Tail(s), substr)

(* fmt.Sprintf("level=%s", v) *)
SprintfText(v) == <<"level", "=">> \o v

(* fmt.Sprintf("\"level\":\"%s\"", v) *)
SprintfJSON(v) == <<Quote, "level", Quote, ":", Quote>> \o v \o <<Quote>>

(* Variant: only the text encoding is looked for. *)
checkLevelTextOnly(log, level) == Contains(log, SprintfText(LevelString(level)))

checkLevel(log, level) ==
    \/ Contains(log, SprintfText(LevelString(level)))
    \/ Contains(log, SprintfJSON(LevelString(level)))

(* The levels a line is looked up for: the four named ones and levels between
   and beyond them. *)
SniffLevels == {LevelDebug - 1, LevelDebug, LevelDebug + 2, LevelInfo, LevelInfo + 2,
                LevelWarn, LevelWarn + 1, LevelError, LevelError + 4}

(* Parts of lines: the markers of the levels in both encodings, markers of
   levels with an offset, and texts that are nearly markers. *)
Pieces ==
    {SprintfText(<<n>>) : n \in {"ERROR", "WARN", "INFO", "DEBUG"}}
    \cup {SprintfJSON(<<n>>) : n \in {"ERROR", "WARN", "INFO"}}
    \cup {<<"+", "4">>,
          <<Quote, "level", Quote, ":", Quote, "ERROR", "+", "4", Quote>>,
          <<"level", "=">>,
          <<Backslash, Quote, "level", Backslash, Quote, ":", Backslash, Quote, "WARN",
            Backslash, Quote>>,
          <<" ", "msg", "=", "x", Newline>>}

(* The byte strings handed to Write and to checkLevel. *)
Lines == {<<>>} \cup Pieces \cup {a \o b : a, b \in Pieces}

(* The frame of a call of checkLevel: the arguments and the answer. *)
SniffFrame(log, level, b) ==
    [pc |-> "done", op |-> "checkLevel", log |-> log, level |-> level, result |-> b]

(* checkLevel is a function of its arguments: one application per run. *)
CallCheckLevel(t) ==
    /\ th[t].pc = "idle"
    /\ \E log \in Lines, level \in SniffLevels :
          th' = [th EXCEPT ![t] = SniffFrame(log, level, checkLevel(log, level))]
    /\ UNCHANGED <<arrays, held, closed, out, ncalls>>

----------------------------------------------------------------------------
(* ConsoleLogWriter *)

Stdout == 1
Stderr == 2

(* type ConsoleLogWriter struct { outputStream io.Writer } *)
ConsoleLogWriter(s) == [outputStream |-> s]

(* The escape sequences of the colours, and the one that ends a colour. *)
FgRed    == "ESC[31m"
FgYellow == "ESC[33m"
FgBlue   == "ESC[34m"
Reset    == "ESC[0m"
NoColour == ""

(* One write on a stream, as the stream saw it. *)
WriteCall(bytes, err) == [bytes |-> bytes, err |-> err]

(* outputStream.Write(b): the count and the error the stream returns, the
   streams after it, and the write attempted. *)
StreamWrite(s, b, cl, o) ==
    IF s \in cl
    THEN [n |-> 0, err |-> WriteError(s), out |-> o,
          writes |-> <<WriteCall(b, WriteError(s))>>]
    ELSE [n |-> Len(b), err |-> NoError, out |-> [o EXCEPT ![s] = Append(o[s], b)],
          writes |-> <<WriteCall(b, NoError)>>]

(* Variant: the text is printed without its last byte. *)
FprintTrimmed(c, s, log, cl, o) ==
    LET text  == IF log = <<>> THEN log ELSE SubSeq(log, 1, Len(log) - 1)
        set   == StreamWrite(s, <<c>>, cl, o)
        print == StreamWrite(s, text, cl, set.out)
        unset == StreamWrite(s, <<Reset>>, cl, print.out)
    IN  [n |-> print.n, err |-> print.err, out |-> unset.out,
         writes |-> set.writes \o print.writes \o unset.writes]

(* Variant: the error of the stream is dropped. *)
FprintSilent(c, s, log, cl, o) ==
    LET set   == StreamWrite(s, <<c>>, cl, o)
        print == StreamWrite(s, log, cl, set.out)
        unset == StreamWrite(s, <<Reset>>, cl, print.out)
    IN  [n |-> print.n, err |-> NoError, out |-> unset.out,
         writes |-> set.writes \o print.writes \o unset.writes]

(* color.New(c).Fprint(w, log): the colour is set on the writer, the text is
   printed, the colour is unset; the count and the error are those of the
   print. *)
Fprint(c, s, log, cl, o) ==
    LET set   == StreamWrite(s, <<c>>, cl, o)
        print == StreamWrite(s, log, cl, set.out)
        unset == StreamWrite(s, <<Reset>>, cl, print.out)
    IN  [n |-> print.n, err |-> print.err, out |-> unset.out,
         writes |-> set.writes \o print.writes \o unset.writes]

(* Variant: Warn is looked for before Error. *)
ColourWarnFirst(log) ==
    IF checkLevel(log, LevelWarn) THEN FgYellow
    ELSE IF checkLevel(log, LevelError) THEN FgRed
    ELSE IF checkLevel(log, LevelInfo) THEN FgBlue
    ELSE NoColour

(* Variant: a line at Debug gets a colour too. *)
ColourDebugToo(log) ==
    IF checkLevel(log, LevelError) THEN FgRed
    ELSE IF checkLevel(log, LevelWarn) THEN FgYellow
    ELSE IF checkLevel(log, LevelInfo) THEN FgBlue
    ELSE IF checkLevel(log, LevelDebug) THEN FgBlue
    ELSE NoColour

(* The switch of Write: the colour of the first case that holds. *)
Colour(log) ==
    IF checkLevel(log, LevelError) THEN FgRed
    ELSE IF checkLevel(log, LevelWarn) THEN FgYellow
    ELSE IF checkLevel(log, LevelInfo) THEN FgBlue
    ELSE NoColour

(* Variant: the writer remembers the colour it used last, a line without a
   marker is written in the colour of the line before it on the stream. *)
WriteSticky(w, p, cl, o) ==
    LET log  == p
        s    == w.outputStream
        last == IF Len(o[s]) >= 3 /\ o[s][Len(o[s])] = <<Reset>>
                THEN o[s][Len(o[s]) - 2][1] ELSE NoColour
        c    == IF Colour(log) # NoColour THEN Colour(log) ELSE last
    IN  IF c # NoColour THEN Fprint(c, s, log, cl, o)
        ELSE StreamWrite(s, log, cl, o)

(* Variant: a line without colour is written line by line, the end of line
   apart. *)
WriteSplit(w, p, cl, o) ==
    LET log == p
        c   == Colour(log)
        s   == w.outputStream
        a   == StreamWrite(s, IF log = <<>> THEN log ELSE SubSeq(log, 1, Len(log) - 1), cl, o)
        b   == StreamWrite(s, IF log = <<>> THEN log ELSE <<log[Len(log)]>>, cl, a.out)
    IN  IF c # NoColour THEN Fprint(c, s, log, cl, o)
        ELSE [n |-> a.n + b.n, err |-> b.err, out |-> b.out, writes |-> a.writes \o b.writes]

(* func (w ConsoleLogWriter) Write(p []byte) (n int, err error) *)
Write(w, p, cl, o) ==
    LET log == p
        c   == Colour(log)
    IN  IF c # NoColour THEN Fprint(c, w.outputStream, log, cl, o)
        ELSE StreamWrite(w.outputStream, log, cl, o)

(* The frame of a call of Write: the receiver, the argument, the values
   returned, the number of writes each stream had received before the call
   and the writes the call made. *)
WriteFrame(w, p, o, r) ==
    [pc |-> "done", op |-> "Write", w |-> w, p |-> p, n |-> r.n, err |-> r.err,
     at |-> [s \in Streams |-> Len(o[s])], writes |-> r.writes, prev |-> <<>>]

CallWrite(t) ==
    /\ Free(t)
    /\ ncalls < MaxCalls
    /\ \E j \in 1..Len(held), p \in Lines :
          LET r == Write(held[j], p, closed, out)
          IN  /\ th' = [th EXCEPT ![t] = WriteFrame(held[j], p, out, r)]
              /\ out' = r.out
    /\ ncalls' = ncalls + 1
    /\ UNCHANGED <<arrays, held, closed>>

(* Lines handed to Write more than once: one line per named level in the text
   encoding, the Warn marker in the JSON encoding and the empty input. *)
Replays ==
    {<<>>, SprintfJSON(<<"WARN">>)}
    \cup {SprintfText(<<n>>) \o <<" ", "msg", "=", "x", Newline>> :
              n \in {"ERROR", "WARN", "INFO", "DEBUG"}}

(* A call of Write, the first on the writer or one after earlier calls have
   returned, up to MaxCalls + 1 calls; the frame of the call before is kept
   in the new frame. *)
CallWriteNext(t) ==
    /\ Free(t)
    /\ ncalls < MaxCalls + 1
    /\ \E j \in 1..Len(held), p \in Replays :
          LET r    == Write(held[j], p, closed, out)
              prev == IF th[t].pc = "done" THEN <<[th[t] EXCEPT !.prev = <<>>]>> ELSE <<>>
          IN  /\ th' = [th EXCEPT ![t] = [WriteFrame(held[j], p, out, r) EXCEPT !.prev = prev]]
              /\ out' = r.out
    /\ ncalls' = ncalls + 1
    /\ UNCHANGED <<arrays, held, closed>>

----------------------------------------------------------------------------
(* The handlers of NewConsoleLogHandler (slog.NewTextHandler and
   slog.NewJSONHandler on a ConsoleLogWriter) *)

(* HandlerOptions.Level: nil, for which the handler's minimum is Info, or a
   level. *)
NoLevel == <<>>

Leveler(level) == <<level>>

(* HandlerOptions.ReplaceAttr: nil, or the function of the tests that removes
   the time. *)
NoReplaceAttr == "nil"
DropTime      == "drop time"

HandlerOptions(level, replaceAttr) == [Level |-> level, ReplaceAttr |-> replaceAttr]

(* type ConsoleLogWriterOpts struct { JSON; LogToStdout; HandlerOptions } *)
ConsoleLogWriterOpts(js, toStdout, ho) ==
    [JSON |-> js, LogToStdout |-> toStdout, HandlerOptions |-> ho]

(* var opts ConsoleLogWriterOpts *)
ZeroOpts == ConsoleLogWriterOpts(FALSE, FALSE, HandlerOptions(NoLevel, NoReplaceAttr))

NewJSONHandler(w, ho) == [json |-> TRUE, w |-> w, opts |-> ho]

NewTextHandler(w, ho) == [json |-> FALSE, w |-> w, opts |-> ho]

(* Variant: the lines go to standard output whatever the options say. *)
NewConsoleLogHandlerStdout(options) ==
    LET opts   == IF Len(options) > 0 THEN options[1] ELSE ZeroOpts
        writer == ConsoleLogWriter(Stdout)
    IN  IF opts.JSON THEN NewJSONHandler(writer, opts.HandlerOptions)
        ELSE NewTextHandler(writer, opts.HandlerOptions)

(* Variant: the handler is built with default HandlerOptions. *)
NewConsoleLogHandlerDefaults(options) ==
    LET opts         == IF Len(options) > 0 THEN options[1] ELSE ZeroOpts
        outputStream == IF opts.LogToStdout THEN Stdout ELSE Stderr
        writer       == ConsoleLogWriter(outputStream)
    IN  IF opts.JSON THEN NewJSONHandler(writer, ZeroOpts.HandlerOptions)
        ELSE NewTextHandler(writer, ZeroOpts.HandlerOptions)

(* func NewConsoleLogHandler(options ...ConsoleLogWriterOpts) slog.Handler *)
(* Variant: the option value given last is the one used. *)
NewConsoleLogHandlerLast(options) ==
    LET opts         == IF Len(options) > 0 THEN options[Len(options)] ELSE ZeroOpts
        outputStream == IF opts.LogToStdout THEN Stdout ELSE Stderr
        writer       == ConsoleLogWriter(outputStream)
    IN  IF opts.JSON THEN NewJSONHandler(writer, opts.HandlerOptions)
        ELSE NewTextHandler(writer, opts.HandlerOptions)

NewConsoleLogHandler(options) ==
    LET opts         == IF Len(options) > 0 THEN options[1] ELSE ZeroOpts
        outputStream == IF opts.LogToStdout THEN Stdout ELSE Stderr
        writer       == ConsoleLogWriter(outputStream)
    IN  IF opts.JSON THEN NewJSONHandler(writer, opts.HandlerOptions)
        ELSE NewTextHandler(writer, opts.HandlerOptions)

(* The minimum level of a handler. *)
MinLevel(h) == IF h.opts.Level = NoLevel THEN LevelInfo ELSE h.opts.Level[1]

(* Enabled of a text or JSON handler. *)
ConsoleEnabled(h, level) == level >= MinLevel(h)

(* Strings one after the other with a separator between them. *)
RECURSIVE Join(_, _)
Join(ss, sep) ==
    IF ss = <<>> THEN <<>>
    ELSE IF Len(ss) = 1 THEN ss[1]
    ELSE ss[1] \o sep \o Join(Tail(ss), sep)

(* A string with its quotes and backslashes escaped. *)
RECURSIVE Escaped(_)
Escaped(v) ==
    IF v = <<>> THEN <<>>
    ELSE (IF Head(v) \in {Quote, Backslash} THEN <<Backslash, Head(v)>> ELSE <<Head(v)>>)
         \o Escaped(Tail(v))

(* The text format quotes a value that is empty or has a space, an equals
   sign or a quote. *)
NeedsQuoting(v) == v = <<>> \/ \E k \in 1..Len(v) : v[k] \in {" ", "=", Quote}

TextValue(v) == IF NeedsQuoting(v) THEN <<Quote>> \o Escaped(v) \o <<Quote>> ELSE v

TextField(a) == <<a.key, "=">> \o TextValue(a.value)

JSONField(a) == <<Quote, a.key, Quote, ":", Quote>> \o Escaped(a.value) \o <<Quote>>

(* The attributes of a line: time (unless removed), level, msg, and those of
   the record. *)
Fields(h, record) ==
    (IF h.opts.ReplaceAttr = DropTime THEN <<>>
     ELSE <<[key |-> "time", value |-> record.time]>>)
    \o <<[key |-> "level", value |-> LevelString(record.level)],
         [key |-> "msg", value |-> record.msg]>>
    \o record.attrs

(* The line a handler renders for a record. *)
Render(h, record) ==
    LET fs == Fields(h, record)
    IN  IF h.json
        THEN <<"{">> \o Join([k \in 1..Len(fs) |-> JSONField(fs[k])], <<",">>) \o <<"}", Newline>>
        ELSE Join([k \in 1..Len(fs) |-> TextField(fs[k])], <<" ">>) \o <<Newline>>

(* Handle of a text or JSON handler: the line is rendered and written to the
   writer in one Write. *)
ConsoleHandle(h, record, cl, o) == Write(h.w, Render(h, record), cl, o)

(* The records logged through a console handler: the message of the tests at
   the four levels and at levels between and beyond them, and messages and
   attributes that read like level markers. *)
TestMsg == <<"this", " ", "is", " ", "a", " ", "test", " ", "log">>

TimeStamp == <<"2006-01-02T15:04:05Z">>

ConsoleRecord(level, msg, attrs) ==
    [time |-> TimeStamp, level |-> level, msg |-> msg, attrs |-> attrs]

ConsoleLevels == {LevelDebug, LevelDebug + 2, LevelInfo, LevelInfo + 2,
                  LevelWarn, LevelWarn + 1, LevelError, LevelError + 4}

Contents ==
    {[msg |-> TestMsg, attrs |-> <<>>],
     [msg |-> <<"level", "=", "ERROR">>, attrs |-> <<>>],
     [msg |-> SprintfJSON(<<"WARN">>), attrs |-> <<>>],
     [msg |-> TestMsg, attrs |-> <<[key |-> "k", value |-> <<"level", "=", "INFO">>]>>],
     [msg |-> TestMsg, attrs |-> <<[key |-> "level", value |-> <<"ERROR">>]>>]}

ConsoleRecords == {ConsoleRecord(l, c.msg, c.attrs) : l \in ConsoleLevels, c \in Contents}

(* The argument lists of NewConsoleLogHandler. *)
OptionLists ==
    {<<>>} \cup
    {<<ConsoleLogWriterOpts(js, toStdout, HandlerOptions(lv, ra))>> :
        js \in BOOLEAN, toStdout \in BOOLEAN,
        lv \in {NoLevel, Leveler(LevelDebug), Leveler(LevelWarn)}, ra \in {NoReplaceAttr, DropTime}}

(* The option value that differs from a given one in every field. *)
Opposite(opts) ==
    ConsoleLogWriterOpts(~opts.JSON, ~opts.LogToStdout,
        HandlerOptions(IF opts.HandlerOptions.Level = NoLevel THEN Leveler(LevelDebug)
                       ELSE NoLevel,
                       IF opts.HandlerOptions.ReplaceAttr = NoReplaceAttr THEN DropTime
                       ELSE NoReplaceAttr))

(* Argument lists with more than one option value: behind the first value
   comes its opposite or the zero value. *)
OptionArgs ==
    OptionLists \cup
    UNION {{<<o[1], later>> : later \in {Opposite(o[1]), ZeroOpts}} :
               o \in OptionLists \ {<<>>}}

(* A log call on slog.New(handler): the handler is asked whether the level is
   enabled and, if it is, handles the record.  The frame holds the handler,
   the record, the line rendered, what Write returned, the number of writes
   each stream had received before the call and the writes the call made. *)
Log(h, record, cl, o) ==
    IF ConsoleEnabled(h, record.level)
    THEN LET r == ConsoleHandle(h, record, cl, o)
         IN  [frame |-> [pc |-> "done", op |-> "Log", h |-> h, w |-> h.w, record |-> record,
                         enabled |-> TRUE, p |-> Render(h, record), n |-> r.n,
                         err |-> r.err, at |-> [s \in Streams |-> Len(o[s])],
                         writes |-> r.writes],
              out |-> r.out]
    ELSE [frame |-> [pc |-> "done", op |-> "Log", h |-> h, w |-> h.w, record |-> record,
                     enabled |-> FALSE, p |-> <<>>, n |-> 0,
                     err |-> NoError, at |-> [s \in Streams |-> Len(o[s])],
                     writes |-> <<>>],
          out |-> o]

CallLog(t) ==
    /\ Free(t)
    /\ ncalls < MaxCalls
    /\ \E j \in 1..Len(held), record \in ConsoleRecords :
          LET r == Log(held[j].h, record, closed, out)
          IN  /\ th' = [th EXCEPT ![t] = r.frame]
              /\ out' = r.out
    /\ ncalls' = ncalls + 1
    /\ UNCHANGED <<arrays, held, closed>>

----------------------------------------------------------------------------
(* The program: one handler built by NewCombinedHandler(hs...), then calls of
   its methods and of the methods of the handlers derived from it. *)

Init ==
    \E hs \in ChildLists :
        LET sl == IF hs = <<>> THEN NilSlice ELSE [arr |-> 1, len |-> Len(hs)]
        IN  /\ arrays = IF hs = <<>> THEN <<>> ELSE <<hs>>
            /\ held = <<Held(NewCombinedHandler(sl), hs, CombinedHandler(NilSlice),
                           "NewCombinedHandler", <<>>, "", <<>>)>>
            /\ closed = {}
            /\ out = [s \in Streams |-> <<>>]
            /\ th = [t \in Threads |-> Idle]
            /\ ncalls = 0

(* The application derives handlers and logs through the handlers it holds. *)
Next ==
    \/ CallWithAttrs("g1")
    \/ CallWithGroup("g1")
    \/ CallHandle("g1")

Spec == Init /\ [][Next]_vars

(* The application logs through the handler it built while streams get closed. *)
NextClosing ==
    \/ CallHandle("g1")
    \/ \E s \in Streams : CloseStream(s)

SpecClosing == Init /\ [][NextClosing]_vars

(* The application derives handlers and asks the handlers it holds whether a
   level is enabled. *)
NextEnabled ==
    \/ CallWithAttrs("g1")
    \/ CallWithGroup("g1")
    \/ CallEnabled("g1")

SpecEnabled == Init /\ [][NextEnabled]_vars

(* Two goroutines log through the handlers at the same time. *)
NextLogging ==
    \E t \in Threads :
        \/ BeginHandle(t)
        \/ StepHandle(t)

SpecLogging == Init /\ [][NextLogging]_vars

(* Two goroutines call any of the methods of the handlers at the same time. *)
NextConcurrent ==
    \E t \in Threads :
        \/ BeginEnabled(t)
        \/ StepEnabled(t)
        \/ BeginHandle(t)
        \/ StepHandle(t)
        \/ BeginWithAttrs(t)
        \/ StepWithAttrs(t)
        \/ BeginWithGroup(t)
        \/ StepWithGroup(t)

SpecConcurrent == Init /\ [][NextConcurrent]_vars

(* checkLevel applied to lines and levels. *)
InitSniffer ==
    /\ arrays = <<>>
    /\ held = <<>>
    /\ closed = {}
    /\ out = [s \in Streams |-> <<>>]
    /\ th = [t \in Threads |-> Idle]
    /\ ncalls = 0

NextSniffer == CallCheckLevel("g1")

SpecSniffer == InitSniffer /\ [][NextSniffer]_vars

(* A ConsoleLogWriter on one of the two streams is handed lines while streams
   get closed. *)
InitWriter ==
    \E s \in Streams :
        /\ arrays = <<>>
        /\ held = <<ConsoleLogWriter(s)>>
        /\ closed = {}
        /\ out = [x \in Streams |-> <<>>]
        /\ th = [t \in Threads |-> Idle]
        /\ ncalls = 0

NextWriter ==
    \/ CallWrite("g1")
    \/ \E s \in Streams : CloseStream(s)

SpecWriter == InitWriter /\ [][NextWriter]_vars

(* A handler built by NewConsoleLogHandler(options...) is logged through. *)
InitConsole ==
    \E options \in OptionLists :
        /\ arrays = <<>>
        /\ held = <<[h |-> NewConsoleLogHandler(options), options |-> options]>>
        /\ closed = {}
        /\ out = [s \in Streams |-> <<>>]
        /\ th = [t \in Threads |-> Idle]
        /\ ncalls = 0

NextConsole == CallLog("g1")

SpecConsole == InitConsole /\ [][NextConsole]_vars

(* The caller passed its slice hs as NewCombinedHandler(hs...) and stores
   another handler into an element of it: hs[i] = c.  It does so once. *)
CallerOverwrite ==
    /\ arrays # <<>>
    /\ arrays[1] = held[1].kids
    /\ \E i \in 1..Len(arrays[1]), c \in ChildPool :
          /\ c # arrays[1][i]
          /\ arrays' = [arrays EXCEPT ![1][i] = c]
    /\ UNCHANGED <<held, closed, out, th, ncalls>>

(* The application builds the handler from a slice it goes on writing to, and
   logs through the handler. *)
NextAliasing ==
    \/ CallerOverwrite
    \/ CallHandle("g1")

SpecAliasing == Init /\ [][NextAliasing]_vars

(* The application derives a handler from the handler it built, a handler
   from that one, and so on. *)
NextChain ==
    \/ ChainWithAttrs("g1")
    \/ ChainWithGroup("g1")

SpecChain == Init /\ [][NextChain]_vars

(* The application logs through the handler it built, and again after the
   earlier calls have returned, while streams get closed. *)
NextReuse ==
    \/ CallHandle("g1")
    \/ CallHandleAgain("g1")
    \/ \E s \in Streams : CloseStream(s)

SpecReuse == Init /\ [][NextReuse]_vars

(* A ConsoleLogWriter is handed one line after the other while streams get
   closed. *)
NextRewrite ==
    \/ CallWriteNext("g1")
    \/ \E s \in Streams : CloseStream(s)

SpecRewrite == InitWriter /\ [][NextRewrite]_vars

(* A handler built by NewConsoleLogHandler with none, one or two option
   values is logged through. *)
InitOptions ==
    \E options \in OptionArgs :
        /\ arrays = <<>>
        /\ held = <<[h |-> NewConsoleLogHandler(options), options |-> options]>>
        /\ closed = {}
        /\ out = [s \in Streams |-> <<>>]
        /\ th = [t \in Threads |-> Idle]
        /\ ncalls = 0

NextOptions == CallLog("g1")

SpecOptions == InitOptions /\ [][NextOptions]_vars

(* Two handlers over the same leaf handlers hs: the first has those from
   position a + 1 to b gathered in a CombinedHandler of their own,
   NewCombinedHandler(pre..., NewCombinedHandler(mid...), post...), the second
   is NewCombinedHandler(hs...).  The streams in cl are closed. *)
InitNesting ==
    \E hs \in ChildLists, cl \in SUBSET Streams :
        \E a \in 0..Len(hs) : \E b \in a..Len(hs) :
            LET mid    == SubSeq(hs, a + 1, b)
                heap0  == IF mid = <<>> THEN <<>> ELSE <<mid>>
                inner  == NewCombinedHandler(IF mid = <<>> THEN NilSlice
                                             ELSE [arr |-> 1, len |-> Len(mid)])
                outer  == SubSeq(hs, 1, a) \o <<inner>> \o SubSeq(hs, b + 1, Len(hs))
                heap1  == Append(heap0, outer)
                nested == NewCombinedHandler([arr |-> Len(heap1), len |-> Len(outer)])
                flat   == NewCombinedHandler(IF hs = <<>> THEN NilSlice
                                             ELSE [arr |-> Len(heap1) + 1, len |-> Len(hs)])
            IN  /\ arrays = IF hs = <<>> THEN heap1 ELSE Append(heap1, hs)
                /\ held = <<Held(nested, outer, CombinedHandler(NilSlice),
                                 "NewCombinedHandler", <<>>, "", <<>>),
                            Held(flat, hs, CombinedHandler(NilSlice),
                                 "NewCombinedHandler", <<>>, "", <<>>)>>
                /\ closed = cl
                /\ out = [s \in Streams |-> <<>>]
                /\ th = [t \in Threads |-> Idle]
                /\ ncalls = 0

NextNesting ==
    \/ ApplyEnabled("g1")
    \/ ApplyHandle("g1")

SpecNesting == InitNesting /\ [][NextNesting]_vars

----------------------------------------------------------------------------
(* Properties *)

Done(t, op) == th[t].pc = "done" /\ th[t].op = op

(* The positions in the log of a frame of the calls of a method. *)
CallsOf(f, method) == {n \in 1..Len(f.log) : f.log[n].method = method}

(* The positions in the log of a frame of the child Handle calls that failed. *)
Failed(f) == {n \in CallsOf(f, "Handle") : f.log[n].err # NoError}

First(S) == CHOOSE n \in S : \A m \in S : n <= m

(* C1. Fail-fast: when child ck is the first whose Handle returns an error e,
   CombinedHandler.Handle returns exactly e, and during that call neither
   Enabled nor Handle is invoked on a child after ck. *)
FailFast ==
    \A t \in Threads :
        th[t].op = "Handle" /\ Failed(th[t]) # {} =>
            LET f == th[t]
                k == First(Failed(f))
            IN  /\ k = Len(f.log)
                /\ \A n \in 1..Len(f.log) : f.log[n].child <= f.log[k].child
                /\ f.pc = "done"
                /\ f.err = f.log[k].err

(* A call in which a child failed while a later child was enabled and its
   stream open. *)
FailFastWitness ==
    \E t \in Threads :
        /\ Done(t, "Handle")
        /\ th[t].err # NoError
        /\ \E i \in 1..Len(Children(th[t].h)) :
              /\ i > th[t].log[Len(th[t].log)].child
              /\ ChildEnabled(Children(th[t].h)[i], th[t].record.level)
              /\ Children(th[t].h)[i].stream \notin closed

(* C2. CombinedHandler.Enabled returns true iff at least one child is enabled
   for the level. *)
EnabledIffAnyChild ==
    \A t \in Threads :
        Done(t, "Enabled") =>
            (th[t].enabled <=>
                \E i \in 1..Len(Children(th[t].h)) :
                    ChildEnabled(Children(th[t].h)[i], th[t].level))

(* Enabled returned true although the first child is disabled. *)
EnabledIffAnyChildWitness ==
    \E t \in Threads :
        /\ Done(t, "Enabled")
        /\ th[t].enabled
        /\ ~ChildEnabled(Children(th[t].h)[1], th[t].level)

(* C3. When no child fails, Handle is invoked exactly once, with the record
   unchanged, on every child enabled for the record's level, and never on a
   disabled child. *)
PerChildGating ==
    \A t \in Threads :
        Done(t, "Handle") /\ Failed(th[t]) = {} =>
            LET f == th[t]
            IN  \A i \in 1..Len(Children(f.h)) :
                    LET calls == {n \in CallsOf(f, "Handle") : f.log[n].child = i}
                    IN  /\ Cardinality(calls) =
                              IF ChildEnabled(Children(f.h)[i], f.record.level) THEN 1 ELSE 0
                        /\ \A n \in calls : f.log[n].record = f.record

(* A call without failure on a handler with an enabled and a disabled child. *)
PerChildGatingWitness ==
    \E t \in Threads :
        /\ Done(t, "Handle")
        /\ Failed(th[t]) = {}
        /\ \E i, j \in 1..Len(Children(th[t].h)) :
              /\ ChildEnabled(Children(th[t].h)[i], th[t].record.level)
              /\ ~ChildEnabled(Children(th[t].h)[j], th[t].record.level)

(* The child a logged call was made on, and the line a successful child
   Handle call wrote. *)
Callee(f, n) == Children(f.h)[f.log[n].child]

Delivered(f, n) ==
    /\ f.log[n].err = NoError
    /\ f.log[n].pos \in 1..Len(out[Callee(f, n).stream])
    /\ out[Callee(f, n).stream][f.log[n].pos] = Line(Callee(f, n), f.record)

(* C4. Within one Handle call the children's Handle calls are made in
   construction order, a child's line being written before the next child's;
   a Debug text child followed by an Info JSON child on the same stream give,
   for one Info record, exactly two lines, the text line then the JSON line. *)
EmissionOrder ==
    \A t \in Threads :
        th[t].op = "Handle" =>
            LET f == th[t]
                kids == Children(f.h)
            IN  /\ \A m, n \in CallsOf(f, "Handle") :
                      m < n =>
                          /\ f.log[m].child < f.log[n].child
                          /\ Delivered(f, m)
                          /\ Delivered(f, n) /\ Callee(f, m).stream = Callee(f, n).stream
                                => f.log[m].pos < f.log[n].pos
                /\ ( /\ f.pc = "done"
                     /\ ncalls = 1
                     /\ Failed(f) = {}
                     /\ f.record.level = LevelInfo
                     /\ Len(kids) = 2
                     /\ kids[1].level = LevelDebug /\ ~kids[1].json
                     /\ kids[2].level = LevelInfo /\ kids[2].json
                     /\ kids[1].stream = kids[2].stream )
                   => LET lines == out[kids[1].stream]
                      IN  /\ Len(lines) = 2
                          /\ lines[1] = Line(kids[1], f.record) /\ ~lines[1].json
                          /\ lines[2] = Line(kids[2], f.record) /\ lines[2].json

(* The Info record has been handled by the Debug text and Info JSON children. *)
EmissionOrderWitness ==
    \E t \in Threads :
        /\ Done(t, "Handle")
        /\ ncalls = 1
        /\ Failed(th[t]) = {}
        /\ th[t].record.level = LevelInfo
        /\ Children(th[t].h) = <<debugTextLogHandler, infoJSONLogHandler>>
        /\ Len(out[1]) = 2

(* C5. Partial delivery: when ck is the first child to fail, every enabled
   child before ck has had Handle return nil and its line stays on its
   stream, the call returns an error, and no child after ck gets the record. *)
PartialDelivery ==
    \A t \in Threads :
        th[t].op = "Handle" /\ Failed(th[t]) # {} =>
            LET f  == th[t]
                ck == f.log[First(Failed(f))].child
            IN  /\ f.err # NoError
                /\ \A i \in 1..(ck - 1) :
                      ChildEnabled(Children(f.h)[i], f.record.level) =>
                          \E n \in CallsOf(f, "Handle") :
                              f.log[n].child = i /\ Delivered(f, n)
                /\ \A n \in CallsOf(f, "Handle") : f.log[n].child <= ck

(* A child failed after an earlier child had delivered the record. *)
PartialDeliveryWitness ==
    \E t \in Threads :
        /\ Done(t, "Handle")
        /\ Failed(th[t]) # {}
        /\ \E n \in CallsOf(th[t], "Handle") : Delivered(th[t], n)

(* The handlers held that a call with this method and a non-empty / an empty
   argument returned. *)
Derived(op) ==
    {j \in 1..Len(held) : held[j].op = op /\ (held[j].attrs # <<>> \/ held[j].name # "")}

Undivided(op) ==
    {j \in 1..Len(held) : held[j].op = op /\ held[j].attrs = <<>> /\ held[j].name = ""}

(* The lines the successful child Handle calls of a frame wrote. *)
Written(f) == {n \in CallsOf(f, "Handle") : Delivered(f, n)}

LineOf(f, n) == out[Callee(f, n).stream][f.log[n].pos]

Last(s) == s[Len(s)]

(* A line carries an attribute: its value under its key, whatever the groups. *)
Carries(line, a) ==
    \E p \in 1..Len(line.attrs) :
        line.attrs[p].value = a.value /\ Last(line.attrs[p].key) = Last(a.key)

(* A line carries an attribute of the record with its key qualified by a group. *)
CarriesUnder(line, a, name) ==
    \E p \in 1..Len(line.attrs) :
        /\ line.attrs[p].value = a.value
        /\ Len(line.attrs[p].key) >= 2
        /\ Last(line.attrs[p].key) = Last(a.key)
        /\ line.attrs[p].key[Len(line.attrs[p].key) - 1] = name

(* C6. WithAttrs with attributes returns a new CombinedHandler with as many
   children, the i-th being child i of the receiver WithAttrs(attrs); every
   line a child writes for a record handled through it carries the attributes. *)
WithAttrsDerivesEveryChild ==
    /\ \A j \in Derived("WithAttrs") :
          LET kids == Children(held[j].from)
              res  == Children(held[j].h)
          IN  /\ Len(res) = Len(kids)
              /\ \A i \in 1..Len(kids) : res[i] = ChildWithAttrs(kids[i], held[j].attrs)
              /\ Len(kids) > 0 => held[j].h.handlers.arr # held[j].from.handlers.arr
    /\ \A t \in Threads, j \in Derived("WithAttrs") :
          th[t].op = "Handle" /\ th[t].h = held[j].h =>
              \A n \in CallsOf(th[t], "Handle") :
                  th[t].log[n].err = NoError =>
                      /\ Delivered(th[t], n)
                      /\ \A q \in 1..Len(held[j].attrs) :
                            Carries(LineOf(th[t], n), held[j].attrs[q])

(* A record has been written by two children of a handler that WithAttrs
   returned for a non-empty attribute list. *)
WithAttrsDerivesEveryChildWitness ==
    \E t \in Threads, j \in Derived("WithAttrs") :
        /\ Done(t, "Handle")
        /\ th[t].h = held[j].h
        /\ Cardinality(Written(th[t])) >= 2

(* C7. WithGroup with a non-empty name returns a new CombinedHandler with as
   many children, the i-th being child i of the receiver WithGroup(name); the
   attributes of a record handled through it are qualified by the group in
   every child's line. *)
WithGroupDerivesEveryChild ==
    /\ \A j \in Derived("WithGroup") :
          LET kids == Children(held[j].from)
              res  == Children(held[j].h)
          IN  /\ Len(res) = Len(kids)
              /\ \A i \in 1..Len(kids) : res[i] = ChildWithGroup(kids[i], held[j].name)
              /\ Len(kids) > 0 => held[j].h.handlers.arr # held[j].from.handlers.arr
    /\ \A t \in Threads, j \in Derived("WithGroup") :
          th[t].op = "Handle" /\ th[t].h = held[j].h =>
              \A n \in CallsOf(th[t], "Handle") :
                  th[t].log[n].err = NoError =>
                      /\ Delivered(th[t], n)
                      /\ \A q \in 1..Len(th[t].record.attrs) :
                            CarriesUnder(LineOf(th[t], n), th[t].record.attrs[q], held[j].name)

(* A record with an attribute has been written by two children of a handler
   that WithGroup returned for a non-empty name. *)
WithGroupDerivesEveryChildWitness ==
    \E t \in Threads, j \in Derived("WithGroup") :
        /\ Done(t, "Handle")
        /\ th[t].h = held[j].h
        /\ th[t].record.attrs # <<>>
        /\ Cardinality(Written(th[t])) >= 2

(* C8. WithAttrs with no attributes returns the receiver: the same children
   in the same order, no child's WithAttrs invoked, and Enabled on the result
   asks the receiver's children and answers as the receiver does. *)
WithAttrsEmptyReturnsReceiver ==
    /\ \A t \in Threads :
          Done(t, "WithAttrs") /\ th[t].attrs = <<>> =>
              th[t].result = th[t].h /\ th[t].log = <<>>
    /\ \A j \in Undivided("WithAttrs") :
          /\ held[j].h = held[j].from
          /\ held[j].calls = <<>>
          /\ Children(held[j].h) = Children(held[j].from)
          /\ \A t \in Threads :
                Done(t, "Enabled") /\ th[t].h = held[j].h =>
                    /\ th[t].enabled <=>
                        \E i \in 1..Len(Children(held[j].from)) :
                            ChildEnabled(Children(held[j].from)[i], th[t].level)
                    /\ \A n \in 1..Len(th[t].log) :
                          th[t].log[n].enabled =
                              ChildEnabled(Children(held[j].from)[th[t].log[n].child], th[t].level)

(* Enabled has answered true on the handler WithAttrs returned for an empty
   attribute list and a receiver with several children. *)
WithAttrsEmptyReturnsReceiverWitness ==
    \E t \in Threads, j \in Undivided("WithAttrs") :
        /\ Done(t, "Enabled")
        /\ th[t].h = held[j].h
        /\ th[t].enabled
        /\ Len(Children(held[j].from)) >= 2

(* C9. WithGroup with the empty name returns the receiver: the same children
   in the same order, no child's WithGroup invoked, and the attributes of the
   records handled through the result are under no further group. *)
WithGroupEmptyReturnsReceiver ==
    /\ \A t \in Threads :
          Done(t, "WithGroup") /\ th[t].name = "" =>
              th[t].result = th[t].h /\ th[t].log = <<>>
    /\ \A j \in Undivided("WithGroup") :
          /\ held[j].h = held[j].from
          /\ held[j].calls = <<>>
          /\ Children(held[j].h) = Children(held[j].from)
          /\ \A t \in Threads :
                th[t].op = "Handle" /\ th[t].h = held[j].h =>
                    \A n \in CallsOf(th[t], "Handle") :
                        th[t].log[n].err = NoError =>
                            /\ Delivered(th[t], n)
                            /\ LineOf(th[t], n) =
                                  Line(Children(held[j].from)[th[t].log[n].child], th[t].record)

(* A record with an attribute has been written through a handler that
   WithGroup returned for the empty name. *)
WithGroupEmptyReturnsReceiverWitness ==
    \E t \in Threads, j \in Undivided("WithGroup") :
        /\ Done(t, "Handle")
        /\ th[t].h = held[j].h
        /\ th[t].record.attrs # <<>>
        /\ Written(th[t]) # {}

(* C10. No method of CombinedHandler changes the child sequence of a handler
   the application holds; records handled through the original handler after
   a derivation are written by the original children, without the derived
   attributes and groups. *)
ReceiverImmutable ==
    /\ \A j \in 1..Len(held) : Children(held[j].h) = held[j].kids
    /\ \A t \in Threads : th[t].op # "none" =>
          \E j \in 1..Len(held) : th[t].h = held[j].h /\ Children(th[t].h) = held[j].kids
    /\ \A t \in Threads :
          th[t].op = "Handle" /\ th[t].h = held[1].h =>
              \A n \in CallsOf(th[t], "Handle") :
                  th[t].log[n].err = NoError =>
                      /\ Delivered(th[t], n)
                      /\ LineOf(th[t], n) = Line(held[1].kids[th[t].log[n].child], th[t].record)

(* After a derivation with a non-empty argument, a record with an attribute
   has been written through the handler NewCombinedHandler returned. *)
ReceiverImmutableWitness ==
    \E t \in Threads :
        /\ Derived("WithAttrs") \cup Derived("WithGroup") # {}
        /\ Done(t, "Handle")
        /\ th[t].h = held[1].h
        /\ th[t].record.attrs # <<>>
        /\ Written(th[t]) # {}

----------------------------------------------------------------------------
(* Properties of the console writer *)

(* The name a level is written with. *)
NameOf(level) ==
    CASE level = -5 -> <<"DEBUG", "-", "1">>
      [] level = -4 -> <<"DEBUG">>
      [] level = -2 -> <<"DEBUG", "+", "2">>
      [] level = 0  -> <<"INFO">>
      [] level = 2  -> <<"INFO", "+", "2">>
      [] level = 4  -> <<"WARN">>
      [] level = 5  -> <<"WARN", "+", "1">>
      [] level = 8  -> <<"ERROR">>
      [] level = 12 -> <<"ERROR", "+", "4">>

(* The level markers of the two encodings. *)
TextMarker(level) == <<"level", "=">> \o NameOf(level)

JSONMarker(level) == <<Quote, "level", Quote, ":", Quote>> \o NameOf(level) \o <<Quote>>

(* String m occurs in string s. *)
Occurs(m, s) == \E i \in 1..(Len(s) - Len(m) + 1) : SubSeq(s, i, i + Len(m) - 1) = m

HasMarker(s, level) == Occurs(TextMarker(level), s) \/ Occurs(JSONMarker(level), s)

(* C11. Level sniffer: for every line and every level, checkLevel answers
   true exactly when the line contains level=<NAME> or "level":"<NAME>",
   NAME being the name of the level; so it answers true for every line with
   the Error, Warn or Info marker in either encoding. *)
SnifferContract ==
    \A t \in Threads :
        Done(t, "checkLevel") =>
            (th[t].result <=> HasMarker(th[t].log, th[t].level))

(* A line with the JSON marker of Warn only, behind another piece, is found to
   be at Warn. *)
SnifferContractWitness ==
    \E t \in Threads :
        /\ Done(t, "checkLevel")
        /\ th[t].level = LevelWarn
        /\ th[t].result
        /\ ~Occurs(TextMarker(LevelWarn), th[t].log)
        /\ ~HasPrefix(th[t].log, JSONMarker(LevelWarn))

(* The bytes of a sequence of byte strings, one after the other. *)
RECURSIVE Flatten(_)
Flatten(ss) == IF ss = <<>> THEN <<>> ELSE Head(ss) \o Flatten(Tail(ss))

(* The bytes a call tried to write, and the bytes its stream has received
   since the call began. *)
Attempted(f) == Flatten([k \in 1..Len(f.writes) |-> f.writes[k].bytes])

Received(f, s) == Flatten(SubSeq(out[s], f.at[s] + 1, Len(out[s])))

(* The colour of the first of Error, Warn, Info whose marker a line has. *)
ColourByMarker(line) ==
    IF HasMarker(line, 8) THEN "ESC[31m"
    ELSE IF HasMarker(line, 4) THEN "ESC[33m"
    ELSE IF HasMarker(line, 0) THEN "ESC[34m"
    ELSE "none"

(* The markers of Error, Warn and Info a line has. *)
MarkersIn(line) == {l \in {0, 4, 8} : HasMarker(line, l)}

(* C12. Colour priority: Write tests Error, then Warn, then Info and the
   first match decides: a line with markers of several levels is written in
   red if it has an Error marker, else in yellow if it has a Warn marker,
   else in blue if it has an Info marker. *)
ColourPriority ==
    \A t \in Threads :
        LET f == th[t]
        IN  Done(t, "Write") /\ MarkersIn(f.p) # {} =>
                /\ Len(f.writes) > 0
                /\ f.writes[1].bytes = <<ColourByMarker(f.p)>>
                /\ 8 \in MarkersIn(f.p) => Head(Attempted(f)) = "ESC[31m"
                /\ 8 \notin MarkersIn(f.p) /\ 4 \in MarkersIn(f.p) =>
                       Head(Attempted(f)) = "ESC[33m"
                /\ MarkersIn(f.p) = {0} => Head(Attempted(f)) = "ESC[34m"

(* A line with a Warn marker and, behind it, an Error marker came out red. *)
ColourPriorityWitness ==
    \E t \in Threads :
        LET f == th[t]
        IN  /\ Done(t, "Write")
            /\ HasPrefix(f.p, TextMarker(4))
            /\ {4, 8} \subseteq MarkersIn(f.p)
            /\ f.err = NoError
            /\ Head(Received(f, f.w.outputStream)) = "ESC[31m"

(* C14. Passthrough: for an input with none of the Error, Warn and Info
   markers, Write makes exactly one write on the stream, of the input bytes as
   they are, without escape codes, and returns the count and the error of
   that write. *)
UnclassifiedPassthrough ==
    \A t \in Threads :
        LET f == th[t]
            s == f.w.outputStream
        IN  Done(t, "Write") /\ MarkersIn(f.p) = {} =>
                /\ Len(f.writes) = 1
                /\ f.writes[1].bytes = f.p
                /\ f.err = f.writes[1].err
                /\ f.err = NoError =>
                       /\ f.n = Len(f.p)
                       /\ Len(out[s]) = f.at[s] + 1
                       /\ out[s][f.at[s] + 1] = f.p
                /\ f.err # NoError =>
                       /\ f.err = [op |-> "write", stream |-> s]
                       /\ f.n = 0
                       /\ Len(out[s]) = f.at[s]

(* A line with the Debug marker reached the stream as it was. *)
UnclassifiedPassthroughWitness ==
    \E t \in Threads :
        LET f == th[t]
        IN  /\ Done(t, "Write")
            /\ HasMarker(f.p, -4)
            /\ MarkersIn(f.p) = {}
            /\ Len(f.p) > 3
            /\ f.err = NoError
            /\ Received(f, f.w.outputStream) = f.p

(* C16. Error propagation: when the write on the stream fails, with or
   without colour, Write returns the error of the stream as it is, the line
   is handed to the stream once only, and no rest of it is written. *)
WriteErrorPropagation ==
    \A t \in Threads :
        LET f == th[t]
            s == f.w.outputStream
            failed == {k \in 1..Len(f.writes) : f.writes[k].err # NoError}
        IN  Done(t, "Write") /\ failed # {} =>
                /\ f.err = [op |-> "write", stream |-> s]
                /\ Cardinality({k \in 1..Len(f.writes) : f.writes[k].bytes = f.p}) = 1
                /\ \A k \in 1..Len(f.writes) :
                       f.writes[k].bytes \in
                           {f.p, <<"ESC[31m">>, <<"ESC[33m">>, <<"ESC[34m">>, <<"ESC[0m">>}
                /\ Len(out[s]) = f.at[s]

(* A line with the Error marker was written to a closed stream. *)
WriteErrorPropagationWitness ==
    \E t \in Threads :
        LET f == th[t]
        IN  /\ Done(t, "Write")
            /\ 8 \in MarkersIn(f.p)
            /\ f.err = [op |-> "write", stream |-> f.w.outputStream]
            /\ f.w.outputStream \in closed

(* The options a handler held by the application was built with: the first
   of the list, and the defaults when the list is empty. *)
Given(e) ==
    IF e.options = <<>>
    THEN [JSON |-> FALSE, LogToStdout |-> FALSE, Level |-> 0, DropTime |-> FALSE]
    ELSE [JSON        |-> e.options[1].JSON,
          LogToStdout |-> e.options[1].LogToStdout,
          Level       |-> IF e.options[1].HandlerOptions.Level = <<>> THEN 0
                          ELSE e.options[1].HandlerOptions.Level[1],
          DropTime    |-> e.options[1].HandlerOptions.ReplaceAttr = "drop time"]

(* A log call has returned on handler e. *)
Logged(t, e) == Done(t, "Log") /\ th[t].h = e.h

InfoTextLine ==
    <<"level", "=", "INFO", " ", "msg", "=", "\"",
      "this", " ", "is", " ", "a", " ", "test", " ", "log", "\"", "\n">>

DebugJSONLine ==
    <<"{", "\"", "level", "\"", ":", "\"", "DEBUG", "\"", ",",
      "\"", "msg", "\"", ":", "\"", "this", " ", "is", " ", "a", " ", "test", " ", "log", "\"",
      "}", "\n">>

PlainRecord(f, level) ==
    /\ f.record.level = level
    /\ f.record.msg = <<"this", " ", "is", " ", "a", " ", "test", " ", "log">>
    /\ f.record.attrs = <<>>

(* C13. Colour mapping: a line whose first matching level is Error, Warn or
   Info reaches the stream whole, its final newline included, between the
   red, yellow or blue escape sequence and the reset; an Info record in text
   format (time removed, as the tests do) gives exactly the blue
   level=INFO msg="this is a test log"\n. *)
ColourMapping ==
    \A t \in Threads : \A j \in 1..Len(held) :
        LET f == th[t]
            s == f.w.outputStream
        IN  Logged(t, held[j]) /\ f.enabled =>
                /\ ColourByMarker(f.p) # "none" =>
                       /\ Received(f, s) = <<ColourByMarker(f.p)>> \o f.p \o <<"ESC[0m">>
                       /\ f.p[Len(f.p)] = "\n"
                /\ (~Given(held[j]).JSON /\ Given(held[j]).DropTime /\ PlainRecord(f, 0)) =>
                       Received(f, s) = <<"ESC[34m">> \o InfoTextLine \o <<"ESC[0m">>

(* The Info record of the tests came out blue on standard error. *)
ColourMappingWitness ==
    \E t \in Threads : \E j \in 1..Len(held) :
        /\ Logged(t, held[j])
        /\ ~Given(held[j]).JSON /\ Given(held[j]).DropTime /\ ~Given(held[j]).LogToStdout
        /\ PlainRecord(th[t], 0)
        /\ Received(th[t], 2) = <<"ESC[34m">> \o InfoTextLine \o <<"ESC[0m">>

(* C15. Only Error, Warn and Info are coloured: a record at any other level
   (Debug, and the levels written with an offset), in text or JSON and
   whatever its message and attributes, is written without colour. *)
OnlyNamedLevelsColoured ==
    \A t \in Threads :
        LET f == th[t]
        IN  Done(t, "Log") /\ f.enabled /\ f.record.level \notin {0, 4, 8} =>
                Received(f, f.w.outputStream) = f.p

(* C17. Stream selection: every line of the handler goes to standard output
   when LogToStdout is set and to standard error otherwise, also when no
   options are given, and nothing goes to the other stream. *)
StreamSelection ==
    \A t \in Threads : \A j \in 1..Len(held) :
        LET f     == th[t]
            want  == IF Given(held[j]).LogToStdout THEN 1 ELSE 2
            other == 3 - want
        IN  Logged(t, held[j]) =>
                /\ Len(out[other]) = f.at[other]
                /\ out[other] = <<>>
                /\ f.enabled => /\ Len(out[want]) > f.at[want]
                                /\ Occurs(f.p, Received(f, want))

(* A handler built without options wrote a line to standard error. *)
StreamSelectionWitness ==
    \E t \in Threads : \E j \in 1..Len(held) :
        /\ Logged(t, held[j])
        /\ held[j].options = <<>>
        /\ th[t].enabled
        /\ Len(th[t].p) > 0
        /\ Occurs(th[t].p, Received(th[t], 2))
        /\ out[1] = <<>>

(* C18. Format and options: the handler renders JSON exactly when JSON is
   set and text otherwise; the HandlerOptions are applied as given, so a
   record below the minimum level leaves no output; with JSON and minimum
   level Debug (time removed, as the tests do) a Debug record gives exactly
   {"level":"DEBUG","msg":"this is a test log"}\n without colour. *)
FormatAndOptions ==
    \A t \in Threads : \A j \in 1..Len(held) :
        LET f == th[t]
            g == Given(held[j])
            s == f.w.outputStream
        IN  Logged(t, held[j]) =>
                /\ f.enabled <=> f.record.level >= g.Level
                /\ ~f.enabled => /\ f.writes = <<>>
                                 /\ \A x \in Streams : Len(out[x]) = f.at[x]
                /\ f.enabled =>
                       /\ g.JSON => /\ f.p[1] = "{"
                                    /\ SubSeq(f.p, Len(f.p) - 1, Len(f.p)) = <<"}", "\n">>
                                    /\ Occurs(JSONMarker(f.record.level), f.p)
                       /\ ~g.JSON => /\ f.p[1] \in {"time", "level"}
                                     /\ f.p[Len(f.p)] = "\n"
                                     /\ Occurs(TextMarker(f.record.level), f.p)
                       /\ g.DropTime <=> ~Occurs(<<"time">>, f.p)
                /\ (g.JSON /\ g.Level = -4 /\ g.DropTime /\ PlainRecord(f, -4)) =>
                       Received(f, s) = DebugJSONLine

(* The Debug record of the tests came out as JSON, without colour. *)
FormatAndOptionsWitness ==
    \E t \in Threads : \E j \in 1..Len(held) :
        /\ Logged(t, held[j])
        /\ Given(held[j]).JSON /\ Given(held[j]).Level = -4 /\ Given(held[j]).DropTime
        /\ PlainRecord(th[t], -4)
        /\ Received(th[t], th[t].w.outputStream) = DebugJSONLine

----------------------------------------------------------------------------
(* Properties of concurrent calls *)

(* A goroutine is in a call of a method, or has returned from it. *)
InCall(t, op) == th[t].op = op /\ th[t].pc \in {"loop", "done"}

(* The positions in the log of a frame of the child Handle calls that wrote a
   line. *)
Wrote(f) == {n \in CallsOf(f, "Handle") : f.log[n].err = NoError}

(* The child a log entry of a frame is about. *)
Kid(f, n) == arrays[f.h.handlers.arr][f.log[n].child]

(* C19. Concurrent Handle calls are not atomic as a unit: with two
   goroutines in Handle on one handler whose children share a stream, a line
   of one call can lie between two lines of the other (the witness); and in
   every execution the lines of one call are on each stream in the order of
   its children, each the line of its child for the record of the call. *)
PerCallOrder ==
    \A t \in Threads :
        LET f == th[t]
        IN  InCall(t, "Handle") =>
                /\ \A n \in Wrote(f) :
                       /\ f.log[n].pos \in 1..Len(out[Kid(f, n).stream])
                       /\ out[Kid(f, n).stream][f.log[n].pos] = Line(Kid(f, n), f.record)
                /\ \A m, n \in Wrote(f) :
                       m < n => /\ f.log[m].child < f.log[n].child
                                /\ Kid(f, m).stream = Kid(f, n).stream =>
                                       f.log[m].pos < f.log[n].pos

(* On a stream two children share, a line of one goroutine's call lies
   between two lines of the other's call on the same handler. *)
PerCallOrderWitness ==
    \E t, u \in Threads :
        /\ t # u
        /\ InCall(t, "Handle") /\ InCall(u, "Handle")
        /\ th[t].h = th[u].h
        /\ \E m, n \in Wrote(th[t]), k \in Wrote(th[u]) :
              /\ Kid(th[t], m).stream = Kid(th[t], n).stream
              /\ Kid(th[u], k).stream = Kid(th[t], m).stream
              /\ th[t].log[m].pos < th[u].log[k].pos
              /\ th[u].log[k].pos < th[t].log[n].pos

(* A call as it begins, with the receiver and the arguments of a frame. *)
Begun(f) ==
    [Idle EXCEPT !.pc = "loop", !.op = f.op, !.h = f.h, !.i = 1, !.level = f.level,
                 !.record = f.record, !.attrs = f.attrs, !.name = f.name]

(* The children a frame called and the methods it called on them, in order. *)
Asked(f) == [n \in 1..Len(f.log) |-> <<f.log[n].child, f.log[n].method>>]

(* C20. No shared mutable state: whatever the interleaving of concurrent
   Enabled, Handle, WithAttrs and WithGroup calls, the children of a handler
   are never written, and each call returns what it returns when run alone
   and calls the same children. *)
NoSharedMutableState ==
    /\ \A j \in 1..Len(held) : Elems(arrays, held[j].h.handlers) = held[j].kids
    /\ \A t \in Threads :
        LET f == th[t]
        IN  /\ Done(t, "Enabled") =>
                LET alone == EnabledRun(Begun(f), arrays)
                IN  f.enabled = alone.enabled /\ Asked(f) = Asked(alone)
            /\ Done(t, "Handle") =>
                LET alone == HandleRun(Begun(f), arrays, closed, [s \in Streams |-> <<>>]).frame
                IN  f.err = alone.err /\ Asked(f) = Asked(alone)
            /\ Done(t, "WithAttrs") =>
                LET alone == WithAttrsRun(WithAttrsEntry(Begun(f)), arrays)
                IN  /\ Elems(arrays, f.result.handlers)
                         = Elems(alone.arrays, alone.frame.result.handlers)
                    /\ Asked(f) = Asked(alone.frame)
                    /\ f.attrs = <<>> => f.result = f.h
            /\ Done(t, "WithGroup") =>
                LET alone == WithGroupRun(WithGroupEntry(Begun(f)), arrays)
                IN  /\ Elems(arrays, f.result.handlers)
                         = Elems(alone.arrays, alone.frame.result.handlers)
                    /\ Asked(f) = Asked(alone.frame)
                    /\ f.name = "" => f.result = f.h

(* One goroutine is in the loop of WithGroup and the other in the loop of
   Handle, on the same handler of several children, each past its first
   child. *)
NoSharedMutableStateWitness ==
    \E t, u \in Threads :
        /\ t # u
        /\ th[t].pc = "loop" /\ th[t].op = "WithGroup" /\ th[t].i > 1
        /\ th[u].pc = "loop" /\ th[u].op = "Handle" /\ th[u].i > 1
        /\ th[t].h = th[u].h
        /\ th[t].h.handlers.len > 1

(* C22. Enabled asks the children in construction order and stops at the
   first that reports enabled: the k-th query of a call is on child k, no
   query follows one answered with true, and when no child is enabled every
   child has been asked exactly once. *)
ShortCircuitOrder ==
    \A t \in Threads :
        Done(t, "Enabled") =>
            LET f == th[t]
                n == Len(Children(f.h))
            IN  /\ \A m \in 1..Len(f.log) :
                      /\ f.log[m].method = "Enabled"
                      /\ f.log[m].child = m
                      /\ f.log[m].level = f.level
                      /\ f.log[m].enabled = ChildEnabled(Children(f.h)[m], f.level)
                      /\ f.log[m].enabled => m = Len(f.log)
                /\ Len(f.log) <= n
                /\ (\A m \in 1..Len(f.log) : ~f.log[m].enabled) => Len(f.log) = n

(* An Enabled call that stopped at an enabled child with a child behind it
   that is enabled as well and was not asked. *)
ShortCircuitOrderWitness ==
    \E t \in Threads :
        /\ Done(t, "Enabled")
        /\ th[t].log # <<>>
        /\ th[t].log[Len(th[t].log)].enabled
        /\ \E i \in 1..Len(Children(th[t].h)) :
              /\ i > Len(th[t].log)
              /\ ChildEnabled(Children(th[t].h)[i], th[t].level)

(* C23. Within a Handle call on the CombinedHandler, a child's Handle is
   invoked only directly after that child's Enabled was called with the
   record's level in the same call and returned true; it is never invoked on
   a child whose Enabled returned false. *)
EnabledBeforeHandle ==
    \A t \in Threads :
        th[t].op = "Handle" =>
            LET f == th[t]
            IN  /\ \A n \in CallsOf(f, "Handle") :
                      /\ n > 1
                      /\ f.log[n - 1].method = "Enabled"
                      /\ f.log[n - 1].child = f.log[n].child
                      /\ f.log[n - 1].level = f.record.level
                      /\ f.log[n - 1].enabled
                /\ \A m \in CallsOf(f, "Enabled") :
                      ~f.log[m].enabled =>
                          \A n \in CallsOf(f, "Handle") : f.log[n].child # f.log[m].child

(* A Handle call that asked a child, was answered false, went on to the next
   child, was answered true and called its Handle. *)
EnabledBeforeHandleWitness ==
    \E t \in Threads :
        /\ Done(t, "Handle")
        /\ \E n \in CallsOf(th[t], "Handle") :
              /\ n > 2
              /\ th[t].log[n - 2].method = "Enabled"
              /\ ~th[t].log[n - 2].enabled
              /\ th[t].log[n - 1].enabled

(* C26. The CombinedHandler never originates an error: Handle returns nil
   exactly when no child Handle it invoked returned an error, and an error it
   returns is the error one of the invoked children returned, the write
   error of that child's stream. *)
NoOriginatedError ==
    \A t \in Threads :
        Done(t, "Handle") =>
            LET f == th[t]
            IN  /\ f.err = NoError <=> Failed(f) = {}
                /\ f.err # NoError =>
                      \E n \in CallsOf(f, "Handle") :
                          /\ f.log[n].err = f.err
                          /\ f.err = WriteError(Callee(f, n).stream)
                          /\ Callee(f, n).stream \in closed

(* A Handle call that returned the write error of its second or a later
   child after an earlier child had taken the record. *)
NoOriginatedErrorWitness ==
    \E t \in Threads :
        /\ Done(t, "Handle")
        /\ th[t].err # NoError
        /\ \E n, m \in CallsOf(th[t], "Handle") :
              /\ m < n
              /\ th[t].log[m].err = NoError
              /\ th[t].log[n].err = th[t].err

(* C27. Enabled and Handle agree: when Enabled(level) of a CombinedHandler
   (one without children included) returns false, a Handle call on it for a
   record at that level invokes no child's Handle and returns nil; when
   Enabled(level) returns true, the Handle call invokes the Handle of at
   least one child. *)
EnabledAgreesWithHandle ==
    \A t, u \in Threads :
        /\ Done(t, "Enabled")
        /\ Done(u, "Handle")
        /\ th[t].h = th[u].h
        /\ th[t].level = th[u].record.level
        => /\ ~th[t].enabled =>
                  /\ CallsOf(th[u], "Handle") = {}
                  /\ th[u].err = NoError
           /\ th[t].enabled => CallsOf(th[u], "Handle") # {}

(* Enabled returned false on a handler that has children, and a Handle call
   on the same handler for a record at the same level has returned. *)
EnabledAgreesWithHandleWitness ==
    \E t, u \in Threads :
        /\ Done(t, "Enabled")
        /\ Done(u, "Handle")
        /\ th[t].h = th[u].h
        /\ th[t].level = th[u].record.level
        /\ ~th[t].enabled
        /\ Len(Children(th[t].h)) >= 2

(* C21. A failed Handle call leaves the handler usable: the failure is a
   returned error value, the handler's children are afterwards what they
   were, and the next Handle call on the handler starts again at the first
   child and asks every child up to the first that fails (all of them when
   none fails), handling each enabled one once, whatever the earlier call
   returned. *)
UsableAfterFailure ==
    \A t \in Threads :
        /\ Done(t, "Handle")
        /\ th[t].prev # <<>>
        /\ th[t].prev[1].err # NoError
        => LET f     == th[t]
               kids  == Children(f.h)
               lastc == IF Failed(f) = {} THEN Len(kids) ELSE f.log[First(Failed(f))].child
               on(i, method) == {n \in CallsOf(f, method) : f.log[n].child = i}
           IN  /\ f.prev[1].pc = "done"
               /\ \E j \in 1..Len(held) : held[j].h = f.h /\ held[j].kids = kids
               /\ kids = Elems(arrays, f.prev[1].h.handlers)
               /\ \A n \in 1..Len(f.log) : f.log[n].child <= lastc
               /\ \A n \in 2..Len(f.log) : f.log[n - 1].child <= f.log[n].child
               /\ \A i \in 1..lastc :
                     /\ Cardinality(on(i, "Enabled")) = 1
                     /\ Cardinality(on(i, "Handle")) =
                           IF ChildEnabled(kids[i], f.record.level) THEN 1 ELSE 0
               /\ f.err = IF Failed(f) = {} THEN NoError ELSE f.log[First(Failed(f))].err

(* After a Handle call that failed, a Handle call on the same handler that
   returned nil and delivered the record to a child. *)
UsableAfterFailureWitness ==
    \E t \in Threads :
        /\ Done(t, "Handle")
        /\ th[t].prev # <<>>
        /\ th[t].prev[1].err # NoError
        /\ th[t].err = NoError
        /\ \E n \in CallsOf(th[t], "Handle") : Delivered(th[t], n)

(* The bytes a line is written as: between the escape codes of its colour
   when it has a marker of Error, Warn or Info, as it is otherwise. *)
Wrapped(line) ==
    IF ColourByMarker(line) = "none" THEN line
    ELSE <<ColourByMarker(line)>> \o line \o <<"ESC[0m">>

(* The bytes the stream received between the start of a call and the start
   of the call after it. *)
ReceivedBefore(f, s) == Flatten(SubSeq(out[s], f.prev[1].at[s] + 1, f.at[s]))

(* C24. The ConsoleLogWriter keeps no state between calls: the bytes a Write
   call writes are a function of the input of that call alone, whatever the
   calls before it were given and returned; nothing of an input is held back
   for a later call; and the same input written twice gives the same output
   twice. *)
WriterStateless ==
    \A t \in Threads :
        Done(t, "Write") /\ th[t].prev # <<>> =>
            LET f == th[t]
                g == f.prev[1]
                s == f.w.outputStream
            IN  /\ Attempted(f) = Wrapped(f.p)
                /\ Attempted(g) = Wrapped(g.p)
                /\ f.err = NoError => Received(f, s) = Wrapped(f.p)
                /\ g.err = NoError => ReceivedBefore(f, s) = Wrapped(g.p)
                /\ f.err # NoError => Received(f, s) = <<>>
                /\ f.p = g.p /\ f.err = NoError /\ g.err = NoError =>
                       /\ Received(f, s) = ReceivedBefore(f, s)
                       /\ f.n = g.n

(* The same line with the Error marker was written twice, both times with
   the stream open. *)
WriterStatelessWitness ==
    \E t \in Threads :
        LET f == th[t]
        IN  /\ Done(t, "Write")
            /\ f.prev # <<>>
            /\ f.err = NoError
            /\ f.prev[1].err = NoError
            /\ f.prev[1].p = f.p
            /\ HasMarker(f.p, 8)

(* C25. Construction isolation: the children of the handler returned by
   NewCombinedHandler(hs...) stay the contents hs had at construction in
   every later state, also when the caller afterwards overwrites elements of
   the slice hs it passed. *)
ConstructionIsolation ==
    \A j \in 1..Len(held) :
        held[j].op = "NewCombinedHandler" => Children(held[j].h) = held[j].kids

(* The handlers of held up to the j-th form a chain of derivations with
   non-empty arguments from the handler that was constructed. *)
Chained(j) ==
    /\ held[1].op = "NewCombinedHandler"
    /\ \A m \in 2..j :
          /\ held[m].from = held[m - 1].h
          /\ m \in Derived("WithAttrs") \cup Derived("WithGroup")

(* A child with the derivations that led to the j-th handler applied in
   their order: WithGroup opens a group behind the open ones, WithAttrs adds
   the attributes under the groups open at that time. *)
RECURSIVE Applied(_, _)
Applied(c, j) ==
    IF j = 1 THEN c
    ELSE LET b == Applied(c, j - 1)
             a == held[j].attrs
         IN  IF held[j].op = "WithAttrs"
             THEN [level  |-> b.level, json |-> b.json, stream |-> b.stream,
                   groups |-> b.groups,
                   attrs  |-> b.attrs \o [q \in 1..Len(a) |->
                                 [key |-> b.groups \o a[q].key, value |-> a[q].value]]]
             ELSE [level  |-> b.level, json |-> b.json, stream |-> b.stream,
                   groups |-> b.groups \o <<held[j].name>>,
                   attrs  |-> b.attrs]

(* C29. Derivations compose child-wise: after WithAttrs/WithGroup calls
   d1..dk with non-empty arguments, each on the result of the one before,
   starting from a handler with n children, the resulting handler has exactly
   n children and its i-th child is the original i-th child with d1..dk
   applied in that order; none is added, dropped, duplicated or moved. *)
DerivationsCompose ==
    \A j \in 2..Len(held) :
        Chained(j) =>
            LET orig == held[1].kids
                res  == Children(held[j].h)
            IN  /\ Len(res) = Len(orig)
                /\ \A i \in 1..Len(orig) : res[i] = Applied(orig[i], j)
                /\ Children(held[1].h) = orig

(* A handler with two children or more obtained by WithGroup and then
   WithAttrs, both with non-empty arguments. *)
DerivationsComposeWitness ==
    /\ Len(held) >= 3
    /\ Chained(3)
    /\ held[2].op = "WithGroup"
    /\ held[3].op = "WithAttrs"
    /\ Len(held[1].kids) >= 2

(* C30. NewConsoleLogHandler uses only its first options argument: without
   arguments the handler is the one of the zero-value options (plain text,
   standard error, default minimum level Info), and with several option
   values the handler is the one of the first value alone, in what it is and
   in what a log call through it does. *)
FirstOptionOnly ==
    \A j \in 1..Len(held) :
        LET e     == held[j]
            g     == Given(e)
            want  == IF g.LogToStdout THEN 1 ELSE 2
        IN  /\ e.options = <<>> =>
                  e.h = [json |-> FALSE, w |-> [outputStream |-> 2],
                         opts |-> [Level |-> <<>>, ReplaceAttr |-> "nil"]]
            /\ e.options # <<>> =>
                  e.h = [json |-> e.options[1].JSON,
                         w    |-> [outputStream |-> IF e.options[1].LogToStdout THEN 1 ELSE 2],
                         opts |-> e.options[1].HandlerOptions]
            /\ \A t \in Threads :
                  Logged(t, e) =>
                      /\ th[t].enabled <=> th[t].record.level >= g.Level
                      /\ out[3 - want] = <<>>
                      /\ th[t].enabled =>
                            /\ th[t].p[1] = "{" <=> g.JSON
                            /\ Occurs(<<"time">>, th[t].p) <=> ~g.DropTime
                            /\ Occurs(th[t].p, Received(th[t], want))

(* A handler built from two option values that differ in every field has
   written a Debug record, which the second value alone would have dropped,
   as the first value says. *)
FirstOptionOnlyWitness ==
    \E t \in Threads : \E j \in 1..Len(held) :
        /\ Logged(t, held[j])
        /\ Len(held[j].options) = 2
        /\ held[j].options[2].JSON # held[j].options[1].JSON
        /\ held[j].options[2].LogToStdout # held[j].options[1].LogToStdout
        /\ held[j].options[2].HandlerOptions.Level = <<>>
        /\ th[t].record.level = -4
        /\ th[t].enabled
        /\ Occurs(th[t].p, Received(th[t], IF held[j].options[1].LogToStdout THEN 1 ELSE 2))

(* The Handle calls that reached text and JSON handlers in the course of the
   calls of a log, in their order: the handler called and the error it
   returned.  A call on a CombinedHandler stands for the calls it made. *)
RECURSIVE LeafCalls(_, _)
LeafCalls(kids, log) ==
    IF log = <<>> THEN <<>>
    ELSE LET e    == Head(log)
             c    == kids[e.child]
             here == IF e.method # "Handle" THEN <<>>
                     ELSE IF "handlers" \in DOMAIN c
                     THEN LeafCalls(Elems(arrays, c.handlers), e.calls)
                     ELSE <<[leaf |-> c, err |-> e.err]>>
         IN  here \o LeafCalls(kids, Tail(log))

(* What a flat handler over the leaf handlers hs owes a record at a level:
   the enabled leaves in their order up to the first whose stream is closed,
   and the error of that one. *)
Due(hs, level) ==
    LET on    == {i \in 1..Len(hs) : level >= hs[i].level}
        bad   == {i \in on : hs[i].stream \in closed}
        upto  == IF bad = {} THEN Len(hs) ELSE First(bad)
        pick  == SelectSeq([i \in 1..upto |-> i], LAMBDA i : i \in on)
    IN  [calls |-> [k \in 1..Len(pick) |->
                       [leaf |-> hs[pick[k]],
                        err  |-> IF hs[pick[k]].stream \in closed
                                 THEN [op |-> "write", stream |-> hs[pick[k]].stream]
                                 ELSE [op |-> "none", stream |-> 0]]],
         err   |-> IF bad = {} THEN [op |-> "none", stream |-> 0]
                   ELSE [op |-> "write", stream |-> hs[First(bad)].stream],
         enabled |-> on # {}]

(* The handler with a CombinedHandler among its children, and the leaf
   handlers both handlers are made of. *)
Nested == held[1]

Leaves == held[2].kids

(* C28. Nesting equals flattening: a CombinedHandler with another
   CombinedHandler among its children, such as [Combined[A, B], C], and the
   flat handler [A, B, C] cannot be told apart: for every level Enabled
   returns the same value, and for every record and every pattern of closed
   streams Handle invokes the same leaf handlers in the same order and
   returns the same error. *)
NestingEqualsFlattening ==
    \A t \in Threads : \A j \in 1..Len(held) :
        /\ Done(t, "Enabled") /\ th[t].h = held[j].h =>
              th[t].enabled = Due(Leaves, th[t].level).enabled
        /\ Done(t, "Handle") /\ th[t].h = held[j].h =>
              /\ LeafCalls(held[j].kids, th[t].log) = Due(Leaves, th[t].record.level).calls
              /\ th[t].err = Due(Leaves, th[t].record.level).err

(* A Handle call on the nested handler in which a leaf of the inner
   CombinedHandler took the record and a leaf behind the inner handler
   failed. *)
NestingEqualsFlatteningWitness ==
    \E t \in Threads :
        /\ Done(t, "Handle")
        /\ th[t].h = Nested.h
        /\ th[t].h # held[2].h
        /\ th[t].err # NoError
        /\ \E n, m \in CallsOf(th[t], "Handle") :
              /\ n < m
              /\ th[t].log[n].calls # <<>>
              /\ th[t].log[n].err = NoError
              /\ th[t].log[m].calls = <<>>
              /\ th[t].log[m].err # NoError

====
